---- MODULE Spec2Model ----
(***************************************************************************)
(* Archive engine of vide (and its cereal twin): the per-session shared-   *)
(* pointer registry and the deferred-action queue of OutputArchive and     *)
(* InputArchive, driven by the shared_ptr / weak_ptr save and load         *)
(* routines of types/memory.hpp over a binary (untagged, in-order) stream. *)
(*                                                                         *)
(* The serialized type is the MemoryCycle node of the unit tests           *)
(* (an int value and a weak_ptr to another node); its serialize() either   *)
(* processes the pointer directly (ar(value)(ptr)) or wraps it in defer()  *)
(* as in the MyEdge example of vide.hpp.  Recursion is modelled by an      *)
(* explicit call stack, one frame per active C++ call.                     *)
(***************************************************************************)
EXTENDS Integers, Sequences, FiniteSets, TLC

\* ---------------------------------------------------------------- bounds
MaxNodes == 3
MaxRoots == 2
MaxOps == 3
MaxRawLen == 4
MaxAddrs == 2
MaxTypes == 2
MaxCaps == 2
MaxValues == 3
MaxNames == 3
MaxCalls == 4
MaxLoads == 2
MaxStreamBytes == 12
MaxCount == 3
MaxByte == 2
MaxSaved == 1
MaxTreeOps == 5
MaxDepth == 2
MaxMembers == 3
MaxStructs == 2
MaxObjects == 3

\* ------------------------------------------------------ program constants
\* ~msb_32bit: the low 31 bits of a uint32 (msb_32bit is 0x80000000)
low_31bit == 2147483647
\* msb2_32bit: the second highest bit of a uint32
msb2_32bit == 1073741824

Nodes == 1..MaxNodes
Null == 0

VARIABLES
    next,                          \* next[n]: target of node n's weak_ptr (Null or a node)
    deferEdges,                    \* serialize() wraps its pointer member in defer()
    phase,                         \* "out": output session, "in": input session, "crashed"
    prog,                          \* the caller's archive calls of the output session
    stream,                        \* the binary stream, one token per fixed-width field
    stack,                         \* active calls, innermost last
    out_itsSharedPointerMap,       \* OutputArchive: address -> pointer id
    out_itsSharedPointerStorage,   \* OutputArchive: shared_ptr copies kept alive
    out_itsCurrentPointerId,       \* OutputArchive: id given to the next pointer
    out_itsDeferments,             \* OutputArchive: queued closures (captured pointer)
    in_pos,                        \* InputArchive: tokens consumed from the stream
    in_itsSharedPointerMap,        \* InputArchive: stripped id -> loaded instance
    in_itsDeferments,              \* InputArchive: queued closures (captured slot)
    inst,                          \* instances constructed by the input session
    handles,                       \* the caller's loaded shared_ptr variables
    in_op,                         \* number of caller calls replayed on input
    in_err,                        \* exception that ended the input session
    flushed                        \* closures called by the current or latest
                                   \* serializeDeferments, in call order

VARIABLES
    out_itsBaseClassSet,           \* OutputArchive: base_class_ids already serialized
    in_itsBaseClassSet,            \* InputArchive: base_class_ids already loaded
    in_baseFields                  \* loaded base sub-objects: base_class_id -> data

baseVars == <<out_itsBaseClassSet, in_itsBaseClassSet, in_baseFields>>

VARIABLES
    type_hash,                     \* std::type_index(typeid(T)).hash_code() of type T
    classVersion,                  \* version declared for T (0: none declared)
    staticMember,                  \* T declares it as static member serialize_class_version
    versions_mapping,              \* detail::Versions::mapping, process wide: hash -> version
    out_itsVersionedTypes,         \* OutputArchive: hashes whose version was written
    in_itsVersionedTypes,          \* InputArchive: hash -> version loaded
    out_versionGiven,              \* versions handed to the save routines, in call order
    in_versionGiven                \* versions handed to the load routines, in call order

versionVars == <<type_hash, classVersion, staticMember, versions_mapping,
                 out_itsVersionedTypes, in_itsVersionedTypes, out_versionGiven,
                 in_versionGiven>>

VARIABLES
    d_engine,                      \* "vide" (vide.hpp) or "cereal" (cereal.hpp)
    d_dir,                         \* "out": OutputArchive, "in": InputArchive
    d_caps,                        \* the serialization functions the type declares
    d_empty,                       \* std::is_empty_v<T>
    d_elision,                     \* the archive's flag AllowEmptyClassElision
    d_outcome,                     \* "pending", or what processing a value came to
    d_called                       \* the serialization function called, or "none"

dispatchVars == <<d_engine, d_dir, d_caps, d_empty, d_elision, d_outcome, d_called>>

VARIABLES
    p_engine,                      \* "vide" (process_as) or "cereal" (process)
    p_member,                      \* p_member[v]: the member value v's serialization
                                   \* function processes (0: none)
    p_stack,                       \* active process calls, innermost last
    p_trace,                       \* prologue / dispatch / epilogue events, in order
    p_done                         \* the events of every returned call

processVars == <<p_engine, p_member, p_stack, p_trace, p_done>>

VARIABLES
    out_itsPolymorphicTypeMap,     \* output archive: type name -> id
    out_itsCurrentPolymorphicTypeId, \* the id to be given to the next type name
    in_itsPolymorphicTypeMap,      \* input archive: stripped id -> type name
    bindingMapOutput,              \* the runtime types bound for the output archive
    bindingMapInput,               \* the type names bound for the input archive
    poly_err,                      \* the exception of the polymorphic save, "" if none
    poly_name                      \* the type name the last polymorphic load resolved
                                   \* (0: none)

polyVars == <<out_itsPolymorphicTypeMap, out_itsCurrentPolymorphicTypeId,
              in_itsPolymorphicTypeMap, bindingMapOutput, bindingMapInput, poly_err,
              poly_name>>

VARIABLES
    sq_remaining,                  \* portable binary input: end - itsStream.tellg()
    sq_events                      \* the allocations and stream reads attempted, in order

seqVars == <<sq_remaining, sq_events>>

VARIABLES
    pb_outLocal,                   \* the writing machine is little endian
    pb_inLocal,                    \* the reading machine is little endian
    pb_outOpen,                    \* a PortableBinaryOutputArchive was constructed
    pb_outConvert,                 \* its itsConvertEndianness
    pb_inOptions,                  \* the Options of the PortableBinaryInputArchive
    pb_inConvert,                  \* its itsConvertEndianness
    pb_saved,                      \* the 16 bit values saved, in order
    pb_loaded                      \* the 16 bit values loaded, in order

endianVars == <<pb_outLocal, pb_inLocal, pb_outOpen, pb_outConvert, pb_inOptions,
                pb_inConvert, pb_saved, pb_loaded>>

VARIABLES
    js_nodeStack,                  \* JSONOutputArchive::itsNodeStack, top last
    js_nameCounter,                \* JSONOutputArchive::itsNameCounter, top last
    js_nextName                    \* JSONOutputArchive::itsNextName, <<>> for nullptr

jsonVars == <<js_nodeStack, js_nameCounter, js_nextName>>

VARIABLES
    ji_document,                   \* JSONInputArchive::itsDocument, the root's members
    ji_stack,                      \* JSONInputArchive::itsIteratorStack, back last
    ji_nextName,                   \* JSONInputArchive::itsNextName, <<>> for nullptr
    ji_loaded                      \* the values the loads returned, in order

jsonInVars == <<ji_document, ji_stack, ji_nextName, ji_loaded>>

VARIABLES
    s_loaded                       \* the values iar(i) has filled in, in order

structVars == <<s_loaded>>

VARIABLES
    al_heap,                       \* the object living at each address (0: free memory)
    al_held,                       \* addresses whose shared_ptr the caller still holds
    al_objects,                    \* objects created so far
    al_ids                         \* session: object -> pointer id it was saved under

aliveVars == <<al_heap, al_held, al_objects, al_ids>>

VARIABLES
    size_t_digits,                 \* width of std::size_t in 16 bit digits: 2 or 4
    in_reserveMemoryBudget,        \* InputArchive::reserveMemoryBudget, a size_t
    bg_initial,                    \* the budget the archive started with
    bg_grants                      \* the calls of safe_to_reserve: request, sizeof(T), grant

budgetVars == <<size_t_digits, in_reserveMemoryBudget, bg_initial, bg_grants>>

VARIABLES
    th_safe,                       \* the build defines VIDE_THREAD_SAFE as 1
    th_pc,                         \* per thread: where it is in registerClassVersion
    th_type,                       \* per thread: the type T of the call in progress
    th_itsVersionedTypes,          \* per thread: its archive's itsVersionedTypes
    th_inserted,                   \* per thread: insertResult.second
    th_given,                      \* per thread: (type, version) pairs returned, in order
    th_mutex,                      \* thread holding StaticObject<Versions>'s mutex, 0: none
    th_raced                       \* per thread: its emplace overlapped an insertion

threadVars == <<th_safe, th_pc, th_type, th_itsVersionedTypes, th_inserted, th_given,
                th_mutex, th_raced>>

VARIABLES
    bn_portable,                   \* the archives are the portable binary ones
    bn_little,                     \* the machine is little endian
    bn_injected,                   \* offset + 1 of the byte overwritten with 2, 0: none
    bn_loaded                      \* the values iar(...) has filled in, in order

binVars == <<bn_portable, bn_little, bn_injected, bn_loaded>>

\* the state of the engine features that the pointer sessions leave alone
extVars == <<baseVars, versionVars, dispatchVars, processVars, polyVars, seqVars, endianVars, jsonVars, jsonInVars, structVars, aliveVars, budgetVars, threadVars, binVars>>

\* the features other than the one a session exercises
exceptBase == <<versionVars, dispatchVars, processVars, polyVars, seqVars, endianVars, jsonVars, jsonInVars, structVars, aliveVars, budgetVars, threadVars, binVars>>
exceptVersion == <<baseVars, dispatchVars, processVars, polyVars, seqVars, endianVars, jsonVars, jsonInVars, structVars, aliveVars, budgetVars, threadVars, binVars>>
exceptDispatch == <<baseVars, versionVars, processVars, polyVars, seqVars, endianVars, jsonVars, jsonInVars, structVars, aliveVars, budgetVars, threadVars, binVars>>
exceptProcess == <<baseVars, versionVars, dispatchVars, polyVars, seqVars, endianVars, jsonVars, jsonInVars, structVars, aliveVars, budgetVars, threadVars, binVars>>
exceptPoly == <<baseVars, versionVars, dispatchVars, processVars, seqVars, endianVars, jsonVars, jsonInVars, structVars, aliveVars, budgetVars, threadVars, binVars>>
exceptSeq == <<baseVars, versionVars, dispatchVars, processVars, polyVars, endianVars, jsonVars, jsonInVars, structVars, aliveVars, budgetVars, threadVars, binVars>>
exceptEndian == <<baseVars, versionVars, dispatchVars, processVars, polyVars, seqVars, jsonVars, jsonInVars, structVars, aliveVars, budgetVars, threadVars, binVars>>
exceptJson == <<baseVars, versionVars, dispatchVars, processVars, polyVars, seqVars, endianVars, jsonInVars, structVars, aliveVars, budgetVars, threadVars, binVars>>
exceptJsonIn == <<baseVars, versionVars, dispatchVars, processVars, polyVars, seqVars, endianVars, jsonVars, structVars, aliveVars, budgetVars, threadVars, binVars>>
exceptStruct == <<baseVars, versionVars, dispatchVars, processVars, polyVars, seqVars, endianVars, jsonVars, jsonInVars, aliveVars, budgetVars, threadVars, binVars>>
exceptVersionStruct == <<baseVars, dispatchVars, processVars, polyVars, seqVars, endianVars, jsonVars, jsonInVars, aliveVars, budgetVars, threadVars, binVars>>
exceptAlive == <<baseVars, versionVars, dispatchVars, processVars, polyVars, seqVars, endianVars, jsonVars, jsonInVars, structVars, budgetVars, threadVars, binVars>>
exceptOutputAlive == <<next, deferEdges, phase, prog, stream, stack, in_pos, in_itsSharedPointerMap,
    in_itsDeferments, inst, handles, in_op, in_err, flushed, in_itsBaseClassSet, in_baseFields,
    type_hash, classVersion, staticMember, versions_mapping, in_itsVersionedTypes,
    out_versionGiven, in_versionGiven, in_itsPolymorphicTypeMap, bindingMapOutput,
    bindingMapInput, poly_err, poly_name, dispatchVars, processVars, seqVars, endianVars,
    jsonVars, jsonInVars, structVars, budgetVars, threadVars, binVars>>
exceptBudget == <<baseVars, versionVars, dispatchVars, processVars, polyVars, seqVars, endianVars, jsonVars, jsonInVars, structVars, aliveVars, threadVars, binVars>>
exceptTables == <<next, deferEdges, phase, stream, stack, in_pos, inst, handles, in_op, in_err,
    flushed, in_baseFields, type_hash, classVersion, staticMember, versions_mapping,
    out_versionGiven, in_versionGiven, bindingMapOutput, bindingMapInput, poly_err, poly_name,
    dispatchVars, processVars, seqVars, endianVars, jsonVars, jsonInVars, structVars,
    size_t_digits, bg_initial, bg_grants, threadVars, binVars>>
exceptThread == <<baseVars, versionVars, dispatchVars, processVars, polyVars, seqVars, endianVars, jsonVars, jsonInVars, structVars, aliveVars, budgetVars, binVars>>
exceptVersionThread == <<baseVars, dispatchVars, processVars, polyVars, seqVars, endianVars, jsonVars, jsonInVars, structVars, aliveVars, budgetVars, binVars>>
exceptBin == <<baseVars, versionVars, dispatchVars, processVars, polyVars, seqVars, endianVars, jsonVars, jsonInVars, structVars, aliveVars, budgetVars, threadVars>>

outVars == <<out_itsSharedPointerMap, out_itsSharedPointerStorage,
             out_itsCurrentPointerId, out_itsDeferments>>
inVars == <<in_pos, in_itsSharedPointerMap, in_itsDeferments, inst, handles,
            in_op, in_err>>
\* the pointer registry, the deferred queue and the call stack
engineVars == <<next, deferEdges, stack, outVars, in_itsSharedPointerMap,
                in_itsDeferments, inst, handles, flushed>>
vars == <<next, deferEdges, phase, prog, stream, stack, outVars, inVars, flushed,
          extVars>>

\* ------------------------------------------------------------- helpers
Last(s) == s[Len(s)]
Pop(s) == SubSeq(s, 1, Len(s) - 1)
Range(f) == {f[x] : x \in DOMAIN f}
EmptyMap == [x \in {} |-> 0]
MapPut(m, k, v) == [x \in DOMAIN m \cup {k} |-> IF x = k THEN v ELSE m[x]]

\* a 32-bit word: its top bit and its low 31 bits, so that the value is
\* msb * 0x80000000 + low
Word(m, l) == [msb |-> m, low |-> l]
Zero == Word(FALSE, 0)
One == Word(FALSE, 1)

\* id & msb_32bit, id & ~msb_32bit, id | msb_32bit and id++ on a uint32
HasMsb(id) == id.msb
StripMsb(id) == [id EXCEPT !.msb = FALSE]
OrMsb(id) == [id EXCEPT !.msb = TRUE]
Inc(id) == IF id.low = low_31bit
           THEN Word(~id.msb, 0)
           ELSE Word(id.msb, id.low + 1)

\* MemoryCycle::value of node n, as the 32 bits written to the stream
NodeValue(n) == Word(FALSE, 100 + n)

\* std::weak_ptr::lock() of a node's pointer member: every node of the graph
\* is owned by the caller for the whole session, so the lock succeeds
Lock(n) == next[n]

Token(k, x) == [kind |-> k, v |-> x]

\* where a loaded pointer is stored: the caller's k-th variable, or the
\* pointer member of instance i
TopSlot(k) == [top |-> TRUE, i |-> k]
MemberSlot(i) == [top |-> FALSE, i |-> i]

\* one active call: obj is the node (output) or instance (input) it works on,
\* slot the pointer a load assigns; it/end are the iterators of the range-for
\* of serializeDeferments, dangling whether a reallocation invalidated them
Frame(f, p, o, sl) == [fn |-> f, pc |-> p, obj |-> o, slot |-> sl,
                       it |-> 0, end |-> 0, dangling |-> FALSE]
FlushFrame(e) == [fn |-> "serializeDeferments", pc |-> "loop", obj |-> 0,
                  slot |-> TopSlot(0), it |-> 1, end |-> e, dangling |-> FALSE]

Flushing(stk) == \E i \in 1..Len(stk) : stk[i].fn = "serializeDeferments"

\* the graphs of a session: every node's pointer is null, designates the
\* following node (the last one the first) or the first node, so that
\* chains, cycles of every length, a self reference and objects that are
\* referred to several times all occur
Succ(n) == (n % MaxNodes) + 1
Graphs == {g \in [Nodes -> {Null} \cup Nodes] :
              \A n \in Nodes : g[n] \in {Null, Succ(n), 1}}

\* the nodes the caller holds a shared_ptr to; the others are reached
\* through pointer members only
Roots == {n \in Nodes : n <= MaxRoots}

SaveOp(n) == [op |-> "save", ptr |-> n]
FlushOp == [op |-> "flush", ptr |-> Null]

\* ---------------------------------------------------------------- Init
\* a freshly constructed archive: every per-session table is empty
InitBase ==
    /\ out_itsBaseClassSet = {}
    /\ in_itsBaseClassSet = {}
    /\ in_baseFields = EmptyMap

\* no versioned type in the program
InitVersion ==
    /\ type_hash = EmptyMap
    /\ classVersion = EmptyMap
    /\ staticMember = EmptyMap
    /\ versions_mapping = EmptyMap
    /\ out_itsVersionedTypes = {}
    /\ in_itsVersionedTypes = EmptyMap
    /\ out_versionGiven = <<>>
    /\ in_versionGiven = <<>>

\* no type under dispatch
InitDispatch ==
    /\ d_engine = "vide"
    /\ d_dir = "out"
    /\ d_caps = {}
    /\ d_empty = FALSE
    /\ d_elision = FALSE
    /\ d_outcome = "pending"
    /\ d_called = "none"

\* no value being processed
InitProcess ==
    /\ p_engine = "vide"
    /\ p_member = EmptyMap
    /\ p_stack = <<>>
    /\ p_trace = <<>>
    /\ p_done = {}

\* a fresh pair of archives and no polymorphic binding
InitPoly ==
    /\ out_itsPolymorphicTypeMap = EmptyMap
    /\ out_itsCurrentPolymorphicTypeId = One
    /\ in_itsPolymorphicTypeMap = EmptyMap
    /\ bindingMapOutput = {}
    /\ bindingMapInput = {}
    /\ poly_err = ""
    /\ poly_name = 0

\* an empty stream, nothing read
InitSeq ==
    /\ sq_remaining = 0
    /\ sq_events = <<>>

\* no portable binary archive
InitEndian ==
    /\ pb_outLocal = TRUE
    /\ pb_inLocal = TRUE
    /\ pb_outOpen = FALSE
    /\ pb_outConvert = FALSE
    /\ pb_inOptions = "default"
    /\ pb_inConvert = FALSE
    /\ pb_saved = <<>>
    /\ pb_loaded = <<>>

\* JSONOutputArchive constructor: the root node, no name pending
InitJson ==
    /\ js_nodeStack = <<"StartObject">>
    /\ js_nameCounter = <<0>>
    /\ js_nextName = <<>>

\* no JSONInputArchive
InitJsonIn ==
    /\ ji_document = <<>>
    /\ ji_stack = <<>>
    /\ ji_nextName = <<>>
    /\ ji_loaded = <<>>

\* nothing loaded
InitStruct ==
    /\ s_loaded = <<>>

InitAlive ==
    /\ al_heap = [a \in 1..MaxAddrs |-> 0]
    /\ al_held = {}
    /\ al_objects = 0
    /\ al_ids = EmptyMap

InitBudget ==
    /\ size_t_digits = 4
    /\ in_reserveMemoryBudget = <<0, 1, 0, 0>>
    /\ bg_initial = <<0, 1, 0, 0>>
    /\ bg_grants = <<>>

InitThread ==
    /\ th_safe = FALSE
    /\ th_pc = <<>>
    /\ th_type = <<>>
    /\ th_itsVersionedTypes = <<>>
    /\ th_inserted = <<>>
    /\ th_given = <<>>
    /\ th_mutex = 0
    /\ th_raced = <<>>

InitBin ==
    /\ bn_portable = FALSE
    /\ bn_little = TRUE
    /\ bn_injected = 0
    /\ bn_loaded = <<>>

\* the features other than those of g start idle
InitOtherFeatures(g) ==
    /\ IF "Base" \in g THEN TRUE ELSE InitBase
    /\ IF "Version" \in g THEN TRUE ELSE InitVersion
    /\ IF "Dispatch" \in g THEN TRUE ELSE InitDispatch
    /\ IF "Process" \in g THEN TRUE ELSE InitProcess
    /\ IF "Poly" \in g THEN TRUE ELSE InitPoly
    /\ IF "Seq" \in g THEN TRUE ELSE InitSeq
    /\ IF "Endian" \in g THEN TRUE ELSE InitEndian
    /\ IF "Json" \in g THEN TRUE ELSE InitJson
    /\ IF "JsonIn" \in g THEN TRUE ELSE InitJsonIn
    /\ IF "Struct" \in g THEN TRUE ELSE InitStruct
    /\ IF "Alive" \in g THEN TRUE ELSE InitAlive
    /\ IF "Budget" \in g THEN TRUE ELSE InitBudget
    /\ IF "Thread" \in g THEN TRUE ELSE InitThread
    /\ IF "Bin" \in g THEN TRUE ELSE InitBin

\* every feature starts idle
InitExt == InitOtherFeatures({})

InitSession ==
    /\ InitExt
    /\ phase = "out"
    /\ prog = <<>>
    /\ stream = <<>>
    /\ stack = <<>>
    /\ out_itsSharedPointerMap = EmptyMap
    /\ out_itsSharedPointerStorage = <<>>
    /\ out_itsCurrentPointerId = One
    /\ out_itsDeferments = <<>>
    /\ in_pos = 0
    /\ in_itsSharedPointerMap = EmptyMap
    /\ in_itsDeferments = <<>>
    /\ inst = <<>>
    /\ handles = <<>>
    /\ in_op = 0
    /\ in_err = "none"
    /\ flushed = <<>>

Init ==
    /\ next \in Graphs
    /\ deferEdges \in BOOLEAN
    /\ InitSession

\* ------------------------------------------------- OutputArchive: registry
\* registerSharedPointer flagging the cached id of a repeat as well
RegisterSharedPointer_RepeatFlagged(map, storage, cur, addr) ==
    IF addr = Null
    THEN [id |-> Zero, map |-> map, storage |-> storage, cur |-> cur]
    ELSE IF addr \notin DOMAIN map
         THEN [id |-> OrMsb(cur), map |-> MapPut(map, addr, cur),
               storage |-> Append(storage, addr), cur |-> Inc(cur)]
         ELSE [id |-> OrMsb(map[addr]), map |-> map,
               storage |-> Append(storage, addr), cur |-> cur]

\* registerSharedPointer without the insertion into itsSharedPointerMap
RegisterSharedPointer_NoInsert(map, storage, cur, addr) ==
    IF addr = Null
    THEN [id |-> Zero, map |-> map, storage |-> storage, cur |-> cur]
    ELSE IF addr \notin DOMAIN map
         THEN [id |-> OrMsb(cur), map |-> map,
               storage |-> Append(storage, addr), cur |-> Inc(cur)]
         ELSE [id |-> map[addr], map |-> map,
               storage |-> Append(storage, addr), cur |-> cur]

\* registerSharedPointer without the increment of itsCurrentPointerId
RegisterSharedPointer_NoIncrement(map, storage, cur, addr) ==
    IF addr = Null
    THEN [id |-> Zero, map |-> map, storage |-> storage, cur |-> cur]
    ELSE IF addr \notin DOMAIN map
         THEN [id |-> OrMsb(cur), map |-> MapPut(map, addr, cur),
               storage |-> Append(storage, addr), cur |-> cur]
         ELSE [id |-> map[addr], map |-> map,
               storage |-> Append(storage, addr), cur |-> cur]

\* registerSharedPointer without the copy kept in itsSharedPointerStorage
RegisterSharedPointer_NoStorage(map, storage, cur, addr) ==
    IF addr = Null
    THEN [id |-> Zero, map |-> map, storage |-> storage, cur |-> cur]
    ELSE IF addr \notin DOMAIN map
         THEN [id |-> OrMsb(cur), map |-> MapPut(map, addr, cur),
               storage |-> storage, cur |-> Inc(cur)]
         ELSE [id |-> map[addr], map |-> map, storage |-> storage, cur |-> cur]

\* OutputArchive::registerSharedPointer: the returned key and the new registry
RegisterSharedPointer(map, storage, cur, addr) ==
    IF addr = Null
    THEN [id |-> Zero, map |-> map, storage |-> storage, cur |-> cur]
    ELSE IF addr \notin DOMAIN map
         THEN [id |-> OrMsb(cur),
               map |-> MapPut(map, addr, cur),
               storage |-> Append(storage, addr),
               cur |-> Inc(cur)]
         ELSE [id |-> map[addr], map |-> map,
               storage |-> Append(storage, addr), cur |-> cur]

\* return from the innermost call: every caller left in a tail position
\* returns too; a flush loop whose iterator reached its end returns too
RECURSIVE OutUnwind(_)
OutUnwind(stk) ==
    IF stk = <<>> THEN stk
    ELSE LET f == Last(stk) IN
         IF f.fn = "serializeDeferments"
         THEN IF f.it > f.end THEN OutUnwind(Pop(stk)) ELSE stk
         ELSE OutUnwind(Pop(stk))

\* a loop over itsDeferments that walks it back to front
DefermentAt_Reverse(q, f) == q[f.end - f.it + 1]

\* *it of the range-for of serializeDeferments
DefermentAt(q, f) == q[f.it]

\* a push onto itsDeferments while serializeDeferments iterates it: when the
\* vector reallocates (its capacity is the build's choice) the loop's
\* iterators dangle
MarkDangling(stk, realloc) ==
    [i \in 1..Len(stk) |->
        IF stk[i].fn = "serializeDeferments" /\ realloc
        THEN [stk[i] EXCEPT !.dangling = TRUE] ELSE stk[i]]

\* ------------------------------------------------ output session: caller
\* oar(ptr): the caller saves a shared_ptr to node n, or a null shared_ptr
OutSave(n) ==
    /\ phase = "out" /\ stack = <<>> /\ Len(prog) < MaxOps
    /\ prog' = Append(prog, SaveOp(n))
    /\ stack' = <<Frame("save_ptr", "start", n, TopSlot(0))>>
    /\ UNCHANGED <<extVars, next, deferEdges, phase, stream, outVars, inVars, flushed>>

\* oar.serializeDeferments(): the range-for takes begin() and end() once
OutFlush ==
    /\ phase = "out" /\ stack = <<>> /\ Len(prog) < MaxOps
    /\ prog' = Append(prog, FlushOp)
    /\ stack' = OutUnwind(<<FlushFrame(Len(out_itsDeferments))>>)
    /\ flushed' = <<>>
    /\ UNCHANGED <<extVars, next, deferEdges, phase, stream, outVars, inVars>>

\* ------------------------------------------- output session: inner steps
\* save(PtrWrapper<shared_ptr const&>): register, write the id, and if the id
\* is flagged process the pointee
OutSavePtr ==
    /\ phase = "out" /\ stack # <<>>
    /\ Last(stack).fn = "save_ptr" /\ Last(stack).pc = "start"
    /\ LET f == Last(stack)
           r == RegisterSharedPointer(out_itsSharedPointerMap,
                    out_itsSharedPointerStorage, out_itsCurrentPointerId, f.obj)
       IN /\ out_itsSharedPointerMap' = r.map
          /\ out_itsSharedPointerStorage' = r.storage
          /\ out_itsCurrentPointerId' = r.cur
          /\ stream' = Append(stream, Token("id", r.id))
          /\ stack' = IF HasMsb(r.id)
                       THEN Append(Append(Pop(stack), [f EXCEPT !.pc = "data"]),
                                   Frame("serialize", "start", f.obj, TopSlot(0)))
                       ELSE OutUnwind(Pop(stack))
    /\ UNCHANGED <<extVars, next, deferEdges, phase, prog, out_itsDeferments, inVars, flushed>>

\* MemoryCycle::serialize on output, pointer member processed directly:
\* ar(value)(ptr); saving the weak_ptr locks it and saves the shared_ptr
OutSerializeDirect ==
    /\ phase = "out" /\ stack # <<>> /\ ~deferEdges
    /\ Last(stack).fn = "serialize" /\ Last(stack).pc = "start"
    /\ LET f == Last(stack) IN
       /\ stream' = Append(stream, Token("value", NodeValue(f.obj)))
       /\ stack' = Append(Append(Pop(stack), [f EXCEPT !.pc = "ptr"]),
                          Frame("save_ptr", "start", Lock(f.obj), TopSlot(0)))
    /\ UNCHANGED <<extVars, next, deferEdges, phase, prog, outVars, inVars, flushed>>

\* processImpl(DeferredData) processing the wrapped value on the spot
OutSerializeDefer_Immediate ==
    /\ phase = "out" /\ stack # <<>> /\ deferEdges
    /\ Last(stack).fn = "serialize" /\ Last(stack).pc = "start"
    /\ LET f == Last(stack) IN
       /\ stream' = Append(stream, Token("value", NodeValue(f.obj)))
       /\ stack' = Append(Append(Pop(stack), [f EXCEPT !.pc = "ptr"]),
                          Frame("save_ptr", "start", Lock(f.obj), TopSlot(0)))
    /\ UNCHANGED <<extVars, next, deferEdges, phase, prog, outVars, inVars, flushed>>

\* serialize with the pointer member deferred: ar(value)(defer(ptr));
\* OutputArchive::processImpl(DeferredData) only queues a closure
OutSerializeDefer ==
    /\ phase = "out" /\ stack # <<>> /\ deferEdges
    /\ Last(stack).fn = "serialize" /\ Last(stack).pc = "start"
    /\ LET f == Last(stack) IN
       /\ stream' = Append(stream, Token("value", NodeValue(f.obj)))
       /\ out_itsDeferments' = Append(out_itsDeferments, f.obj)
       /\ \E realloc \in BOOLEAN :
             stack' = OutUnwind(MarkDangling(Pop(stack), realloc))
    /\ UNCHANGED <<extVars, next, deferEdges, phase, prog, out_itsSharedPointerMap,
                   out_itsSharedPointerStorage, out_itsCurrentPointerId, inVars,
                   flushed>>

\* one iteration of the loop of OutputArchive::serializeDeferments: call the
\* closure at the iterator, which processes the captured pointer member
OutFlushLoop ==
    /\ phase = "out" /\ stack # <<>>
    /\ Last(stack).fn = "serializeDeferments" /\ Last(stack).it <= Last(stack).end
    /\ LET f == Last(stack) IN
       LET d == DefermentAt(out_itsDeferments, f) IN
       /\ stack' = Append(Append(Pop(stack), [f EXCEPT !.it = f.it + 1]),
                          Frame("save_ptr", "start", Lock(d), TopSlot(0)))
       /\ flushed' = Append(flushed, d)
    /\ UNCHANGED <<extVars, next, deferEdges, phase, prog, stream, outVars, inVars>>

\* the loop dereferences an iterator into the freed buffer: the process may
\* read the old closure unharmed (OutFlushLoop) or die
OutFlushCrash ==
    /\ phase = "out" /\ stack # <<>>
    /\ Last(stack).fn = "serializeDeferments" /\ Last(stack).it <= Last(stack).end
    /\ Last(stack).dangling
    /\ phase' = "crashed"
    /\ stack' = <<>>
    /\ UNCHANGED <<extVars, next, deferEdges, prog, stream, outVars, inVars, flushed>>

\* the output session ends between two caller calls; the input session is
\* constructed over the written stream and replays the caller's calls
OpenInput ==
    /\ phase = "out" /\ stack = <<>>
    /\ phase' = "in"
    /\ handles' = [k \in 1..Len(prog) |-> Null]
    /\ flushed' = <<>>
    /\ UNCHANGED <<extVars, next, deferEdges, prog, stream, stack, outVars, in_pos,
                   in_itsSharedPointerMap, in_itsDeferments, inst, in_op, in_err>>

\* -------------------------------------------------- InputArchive: registry
\* getSharedPointer handing out a null pointer for an id it does not know
GetSharedPointer_UnknownIsNull(map, id) ==
    IF id = Zero THEN [found |-> TRUE, ptr |-> Null]
    ELSE IF id \in DOMAIN map THEN [found |-> TRUE, ptr |-> map[id]]
    ELSE [found |-> TRUE, ptr |-> Null]

\* InputArchive::getSharedPointer: the instance registered under id, Null for
\* id 0; found is FALSE where the code throws
GetSharedPointer(map, id) ==
    IF id = Zero THEN [found |-> TRUE, ptr |-> Null]
    ELSE IF id \in DOMAIN map THEN [found |-> TRUE, ptr |-> map[id]]
    ELSE [found |-> FALSE, ptr |-> Null]

\* registerSharedPointer(id, ptr) keyed by the id as read, flag included
RegisterLoadedPointer_Unstripped(map, id, ptr) == MapPut(map, id, ptr)

\* a load that registers the instance only after its payload: while the
\* payload is loaded the table lacks the entry
RegisterLoadedPointer_Late(map, id, ptr) == map

\* InputArchive::registerSharedPointer(id, ptr)
RegisterLoadedPointer(map, id, ptr) == MapPut(map, StripMsb(id), ptr)

\* assignment through a slot
SetSlot(st, sl, p) ==
    IF sl.top
    THEN [st EXCEPT !.handles = [st.handles EXCEPT ![sl.i] = p]]
    ELSE [st EXCEPT !.inst = [st.inst EXCEPT ![sl.i].ptr = p]]

\* return from the innermost call on input: a load_ptr call that constructed
\* an instance assigns it to its wrapper's pointer when the payload load
\* returns (wrapper.ptr = std::move(ptr))
RECURSIVE InUnwind(_)
InUnwind(st) ==
    IF st.stk = <<>> THEN st
    ELSE LET f == Last(st.stk) IN
         IF f.fn = "serializeDeferments"
         THEN IF f.it > f.end THEN InUnwind([st EXCEPT !.stk = Pop(st.stk)]) ELSE st
         ELSE IF f.fn = "load_ptr" /\ f.pc = "data"
         THEN InUnwind(SetSlot([st EXCEPT !.stk = Pop(st.stk)], f.slot, f.obj))
         ELSE InUnwind([st EXCEPT !.stk = Pop(st.stk)])

InState(stk) == [stk |-> stk, handles |-> handles, inst |-> inst]

InReturn(st) ==
    LET r == InUnwind(st) IN
    /\ stack' = r.stk
    /\ handles' = r.handles
    /\ inst' = r.inst

\* an exception leaves every active call and ends the session
InThrow(e) ==
    /\ in_err' = e
    /\ stack' = <<>>

InRunning == phase = "in" /\ in_err = "none"

\* ------------------------------------------------- input session: caller
\* iar(ptr): the caller loads into its k-th shared_ptr variable
InLoad ==
    /\ InRunning /\ stack = <<>> /\ in_op < Len(prog)
    /\ prog[in_op + 1].op = "save"
    /\ in_op' = in_op + 1
    /\ stack' = <<Frame("load_ptr", "start", 0, TopSlot(in_op + 1))>>
    /\ UNCHANGED <<extVars, next, deferEdges, phase, prog, stream, outVars, in_pos,
                   in_itsSharedPointerMap, in_itsDeferments, inst, handles, in_err,
                   flushed>>

\* iar.serializeDeferments()
InFlush ==
    /\ InRunning /\ stack = <<>> /\ in_op < Len(prog)
    /\ prog[in_op + 1].op = "flush"
    /\ in_op' = in_op + 1
    /\ stack' = InUnwind(InState(<<FlushFrame(Len(in_itsDeferments))>>)).stk
    /\ flushed' = <<>>
    /\ UNCHANGED <<extVars, next, deferEdges, phase, prog, stream, outVars, in_pos,
                   in_itsSharedPointerMap, in_itsDeferments, inst, handles, in_err>>

\* -------------------------------------------- input session: inner steps
\* load(PtrWrapper<shared_ptr&>) reads the id: a flagged id constructs an
\* instance, registers it and then loads its payload; an unflagged id is
\* looked up.  BinaryInputArchive::loadBinary throws on a short read.
InLoadPtr ==
    /\ InRunning /\ stack # <<>>
    /\ Last(stack).fn = "load_ptr" /\ Last(stack).pc = "start"
    /\ LET f == Last(stack) IN
       IF in_pos >= Len(stream)
       THEN /\ InThrow("short_read")
            /\ UNCHANGED <<in_pos, in_itsSharedPointerMap, inst, handles>>
       ELSE LET id == stream[in_pos + 1].v IN
            /\ in_pos' = in_pos + 1
            /\ IF HasMsb(id)
               THEN LET i == Len(inst) + 1 IN
                    /\ inst' = Append(inst, [value |-> Zero, ptr |-> Null])
                    /\ in_itsSharedPointerMap' =
                           RegisterLoadedPointer(in_itsSharedPointerMap, id, i)
                    /\ stack' = Append(Append(Pop(stack),
                                    [f EXCEPT !.pc = "data", !.obj = i]),
                                    Frame("serialize", "start", i, TopSlot(0)))
                    /\ UNCHANGED <<handles, in_err>>
               ELSE LET g == GetSharedPointer(in_itsSharedPointerMap, id) IN
                    IF g.found
                    THEN /\ InReturn(SetSlot(InState(Pop(stack)), f.slot, g.ptr))
                         /\ UNCHANGED <<in_itsSharedPointerMap, in_err>>
                    ELSE /\ InThrow("unknown_id")
                         /\ UNCHANGED <<in_itsSharedPointerMap, inst, handles>>
    /\ UNCHANGED <<extVars, next, deferEdges, phase, prog, stream, outVars,
                   in_itsDeferments, in_op, flushed>>

\* MemoryCycle::serialize on input, pointer member processed directly:
\* loading the weak_ptr loads a shared_ptr and assigns it to the member
InSerializeDirect ==
    /\ InRunning /\ stack # <<>> /\ ~deferEdges
    /\ Last(stack).fn = "serialize" /\ Last(stack).pc = "start"
    /\ LET f == Last(stack) IN
       IF in_pos >= Len(stream)
       THEN /\ InThrow("short_read")
            /\ UNCHANGED <<in_pos, inst>>
       ELSE /\ in_pos' = in_pos + 1
            /\ inst' = [inst EXCEPT ![f.obj].value = stream[in_pos + 1].v]
            /\ stack' = Append(Append(Pop(stack), [f EXCEPT !.pc = "ptr"]),
                               Frame("load_ptr", "start", 0, MemberSlot(f.obj)))
            /\ UNCHANGED in_err
    /\ UNCHANGED <<extVars, next, deferEdges, phase, prog, stream, outVars,
                   in_itsSharedPointerMap, in_itsDeferments, handles, in_op, flushed>>

\* InputArchive::processImpl(DeferredData) loading the wrapped value on the spot
InSerializeDefer_Immediate ==
    /\ InRunning /\ stack # <<>> /\ deferEdges
    /\ Last(stack).fn = "serialize" /\ Last(stack).pc = "start"
    /\ LET f == Last(stack) IN
       IF in_pos >= Len(stream)
       THEN /\ InThrow("short_read")
            /\ UNCHANGED <<in_pos, inst>>
       ELSE /\ in_pos' = in_pos + 1
            /\ inst' = [inst EXCEPT ![f.obj].value = stream[in_pos + 1].v]
            /\ stack' = Append(Append(Pop(stack), [f EXCEPT !.pc = "ptr"]),
                               Frame("load_ptr", "start", 0, MemberSlot(f.obj)))
            /\ UNCHANGED in_err
    /\ UNCHANGED <<extVars, next, deferEdges, phase, prog, stream, outVars,
                   in_itsSharedPointerMap, in_itsDeferments, handles, in_op, flushed>>

\* serialize on input with the pointer member deferred:
\* InputArchive::processImpl(DeferredData) only queues a closure
InSerializeDefer ==
    /\ InRunning /\ stack # <<>> /\ deferEdges
    /\ Last(stack).fn = "serialize" /\ Last(stack).pc = "start"
    /\ LET f == Last(stack) IN
       IF in_pos >= Len(stream)
       THEN /\ InThrow("short_read")
            /\ UNCHANGED <<in_pos, inst, handles, in_itsDeferments>>
       ELSE /\ in_pos' = in_pos + 1
            /\ in_itsDeferments' = Append(in_itsDeferments, f.obj)
            /\ \E realloc \in BOOLEAN :
                  InReturn([InState(MarkDangling(Pop(stack), realloc)) EXCEPT
                              !.inst[f.obj].value = stream[in_pos + 1].v])
            /\ UNCHANGED in_err
    /\ UNCHANGED <<extVars, next, deferEdges, phase, prog, stream, outVars,
                   in_itsSharedPointerMap, in_op, flushed>>

\* one iteration of the loop of InputArchive::serializeDeferments
InFlushLoop ==
    /\ InRunning /\ stack # <<>>
    /\ Last(stack).fn = "serializeDeferments" /\ Last(stack).it <= Last(stack).end
    /\ LET f == Last(stack) IN
       LET d == DefermentAt(in_itsDeferments, f) IN
       /\ stack' = Append(Append(Pop(stack), [f EXCEPT !.it = f.it + 1]),
                          Frame("load_ptr", "start", 0, MemberSlot(d)))
       /\ flushed' = Append(flushed, d)
    /\ UNCHANGED <<extVars, next, deferEdges, phase, prog, stream, outVars, inVars>>

\* the input loop dereferences a dangling iterator and the process dies
InFlushCrash ==
    /\ InRunning /\ stack # <<>>
    /\ Last(stack).fn = "serializeDeferments" /\ Last(stack).it <= Last(stack).end
    /\ Last(stack).dangling
    /\ phase' = "crashed"
    /\ stack' = <<>>
    /\ UNCHANGED <<extVars, next, deferEdges, prog, stream, outVars, inVars, flushed>>

\* ------------------------------------------------------- specification
Next ==
    \/ \E n \in {Null} \cup Roots : OutSave(n)
    \/ OutFlush
    \/ OutSavePtr
    \/ OutSerializeDirect
    \/ OutSerializeDefer
    \/ OutFlushLoop
    \/ OutFlushCrash
    \/ OpenInput
    \/ InLoad
    \/ InFlush
    \/ InLoadPtr
    \/ InSerializeDirect
    \/ InSerializeDefer
    \/ InFlushLoop
    \/ InFlushCrash

Spec == Init /\ [][Next]_vars

\* --------------------------------- input session over an arbitrary stream
\* An InputArchive reads whatever stream it is constructed over.  The words
\* a stream may hold: null, two unflagged ids, three flagged ids and a value.
RawWords == {Zero, One, Inc(One), OrMsb(Zero), OrMsb(One), OrMsb(Inc(One)),
             NodeValue(1)}

SeqsUpTo(S, n) == UNION {[1..k -> S] : k \in 0..n}

InitRaw ==
    /\ next = [n \in Nodes |-> Null]
    /\ deferEdges = FALSE
    /\ phase = "in"
    /\ prog \in SeqsUpTo({SaveOp(Null), FlushOp}, MaxOps)
    /\ stream \in SeqsUpTo({Token("raw", w) : w \in RawWords}, MaxRawLen)
    /\ stack = <<>>
    /\ out_itsSharedPointerMap = EmptyMap
    /\ out_itsSharedPointerStorage = <<>>
    /\ out_itsCurrentPointerId = One
    /\ out_itsDeferments = <<>>
    /\ in_pos = 0
    /\ in_itsSharedPointerMap = EmptyMap
    /\ in_itsDeferments = <<>>
    /\ inst = <<>>
    /\ handles = [k \in 1..Len(prog) |-> Null]
    /\ in_op = 0
    /\ in_err = "none"
    /\ flushed = <<>>
    /\ InitExt

NextRaw ==
    \/ InLoad
    \/ InFlush
    \/ InLoadPtr
    \/ InSerializeDirect

SpecRaw == InitRaw /\ [][NextRaw]_vars

\* ------------------- round trip of objects that point to themselves
\* test_memory_cycles: every node's weak_ptr designates the node itself and
\* serialize() processes it directly.  Execution is synchronous: a call that
\* can take a step takes it, and the caller ends the output session and
\* replays its calls on the input session.
InitCycle ==
    /\ next = [n \in Nodes |-> n]
    /\ deferEdges = FALSE
    /\ InitSession

NextCycle ==
    \/ \E n \in {Null} \cup Roots : OutSave(n)
    \/ OutFlush
    \/ OutSavePtr
    \/ OutSerializeDirect
    \/ OpenInput
    \/ InLoad
    \/ InFlush
    \/ InLoadPtr
    \/ InSerializeDirect

SpecCycle == InitCycle /\ [][NextCycle]_vars /\ WF_vars(NextCycle)

\* ------------------------------------------------- base-class views
\* A session that processes base-class views of objects: base_class<T>(p)
\* and virtual_base_class<T>(p), p the address of the T sub-object.
BaseTypes == {"Base", "Left"}
Addrs == 1..MaxAddrs

\* the data of the T sub-object at address a
BaseValue(t, a) == 10 * a + (IF t = "Base" THEN 1 ELSE 2)

ViewOp(k, t, a) == [op |-> k, type |-> t, ptr |-> a]

\* a base_class_id that compares the address only
base_class_id_PtrOnly(t, a) == <<"", a>>

\* detail::base_class_id: equal iff type and ptr are equal
base_class_id(t, a) == <<t, a>>

\* the pointer registry and the deferred queue, unused by a session
InitIdleEngine ==
    /\ next = [n \in Nodes |-> Null]
    /\ deferEdges = FALSE
    /\ stack = <<>>
    /\ out_itsSharedPointerMap = EmptyMap
    /\ out_itsSharedPointerStorage = <<>>
    /\ out_itsCurrentPointerId = One
    /\ out_itsDeferments = <<>>
    /\ in_itsSharedPointerMap = EmptyMap
    /\ in_itsDeferments = <<>>
    /\ inst = <<>>
    /\ handles = <<>>
    /\ flushed = <<>>

InitViews ==
    /\ InitIdleEngine
    /\ InitExt
    /\ phase = "out"
    /\ prog = <<>>
    /\ stream = <<>>
    /\ in_pos = 0
    /\ in_op = 0
    /\ in_err = "none"

\* OutputArchive::processImpl(base_class<T>): always processes *b.base_ptr
OutBaseClass(t, a) ==
    /\ phase = "out" /\ Len(prog) < MaxOps
    /\ prog' = Append(prog, ViewOp("base_class", t, a))
    /\ stream' = Append(stream, Token("base", BaseValue(t, a)))
    /\ UNCHANGED <<engineVars, phase, in_pos, in_op, in_err, extVars>>

\* OutputArchive::processImpl(virtual_base_class<T>): processes *b.base_ptr
\* only if the emplace into itsBaseClassSet inserted the id
OutVirtualBaseClass(t, a) ==
    /\ phase = "out" /\ Len(prog) < MaxOps
    /\ prog' = Append(prog, ViewOp("virtual_base_class", t, a))
    /\ LET id == base_class_id(t, a) IN
       /\ out_itsBaseClassSet' = out_itsBaseClassSet \cup {id}
       /\ stream' = IF id \notin out_itsBaseClassSet
                    THEN Append(stream, Token("base", BaseValue(t, a)))
                    ELSE stream
    /\ UNCHANGED <<engineVars, phase, in_pos, in_op, in_err,
                   in_itsBaseClassSet, in_baseFields, exceptBase>>

\* the input session replays the caller's views over the written stream
OpenViewInput ==
    /\ phase = "out"
    /\ phase' = "in"
    /\ UNCHANGED <<engineVars, prog, stream, in_pos, in_op, in_err, extVars>>

\* loading the sub-object reads its data; a short read throws
LoadBase(id) ==
    IF in_pos >= Len(stream)
    THEN /\ in_err' = "short_read"
         /\ UNCHANGED <<in_pos, in_baseFields>>
    ELSE /\ in_pos' = in_pos + 1
         /\ in_baseFields' = MapPut(in_baseFields, id, stream[in_pos + 1].v)
         /\ UNCHANGED in_err

\* InputArchive::processImpl(base_class<T>&)
InBaseClass ==
    /\ InRunning /\ in_op < Len(prog)
    /\ prog[in_op + 1].op = "base_class"
    /\ in_op' = in_op + 1
    /\ LoadBase(base_class_id(prog[in_op + 1].type, prog[in_op + 1].ptr))
    /\ UNCHANGED <<engineVars, phase, prog, stream, out_itsBaseClassSet,
                   in_itsBaseClassSet, exceptBase>>

\* InputArchive::processImpl(virtual_base_class<T>&)
InVirtualBaseClass ==
    /\ InRunning /\ in_op < Len(prog)
    /\ prog[in_op + 1].op = "virtual_base_class"
    /\ in_op' = in_op + 1
    /\ LET id == base_class_id(prog[in_op + 1].type, prog[in_op + 1].ptr) IN
       /\ in_itsBaseClassSet' = in_itsBaseClassSet \cup {id}
       /\ IF id \notin in_itsBaseClassSet
          THEN LoadBase(id)
          ELSE UNCHANGED <<in_pos, in_baseFields, in_err>>
    /\ UNCHANGED <<engineVars, phase, prog, stream, out_itsBaseClassSet,
                   exceptBase>>

NextViews ==
    \/ \E t \in BaseTypes, a \in Addrs : OutBaseClass(t, a)
    \/ \E t \in BaseTypes, a \in Addrs : OutVirtualBaseClass(t, a)
    \/ OpenViewInput
    \/ InBaseClass
    \/ InVirtualBaseClass

SpecViews == InitViews /\ [][NextViews]_vars

\* ------------------------------------------------------ class versions
\* A session that processes values of types with versioned serialization
\* functions (test_versioning).  A type declares its version with
\* VIDE_CLASS_VERSION, as the static member serialize_class_version, or not
\* at all (Version<T>::version is 0 then).
VTypes == 1..MaxTypes
DeclaredVersions == {0, 33, 66}

\* hash_code() is a function of the type; distinct types may share a value.
\* One function per partition of the types into classes of equal hash.
HashCodes == {h \in [VTypes -> VTypes] :
                 /\ h[1] = 1
                 /\ \A t \in VTypes : t > 1 =>
                        \E u \in 1..(t - 1) : h[t] <= h[u] + 1}

\* the types registered by VIDE_CLASS_VERSION under hash h
MacroDeclared(h) ==
    {t \in VTypes : type_hash[t] = h /\ ~staticMember[t] /\ classVersion[t] # 0}

\* Version<TYPE>::registerVersion of every VIDE_CLASS_VERSION ran during
\* static initialisation, in an order the build chooses; mapping.emplace
\* keeps the first version registered for a hash
RegisteredMappings ==
    LET hs == {h \in VTypes : MacroDeclared(h) # {}} IN
    {m \in [hs -> DeclaredVersions] :
        \A h \in hs : \E t \in MacroDeclared(h) : m[h] = classVersion[t]}

\* detail::Versions::find: emplace (hash, version), return the mapped version
VersionsFind(mapping, hash, version) ==
    IF hash \in DOMAIN mapping
    THEN [version |-> mapping[hash], mapping |-> mapping]
    ELSE [version |-> version, mapping |-> MapPut(mapping, hash, version)]

InitVersions ==
    /\ InitIdleEngine
    /\ InitOtherFeatures({"Version"})
    /\ type_hash \in HashCodes
    /\ classVersion \in [VTypes -> DeclaredVersions]
    /\ staticMember \in [VTypes -> BOOLEAN]
    /\ \A t \in VTypes : staticMember[t] => classVersion[t] # 0
    /\ versions_mapping \in RegisteredMappings
    /\ out_itsVersionedTypes = {}
    /\ in_itsVersionedTypes = EmptyMap
    /\ out_versionGiven = <<>>
    /\ in_versionGiven = <<>>
    /\ phase = "out"
    /\ prog = <<>>
    /\ stream = <<>>
    /\ in_pos = 0
    /\ in_op = 0
    /\ in_err = "none"

\* OutputArchive::registerClassVersion<T>: the version, the new tables and
\* whether the version number is serialized
RegisterClassVersion(t) ==
    LET hash == type_hash[t]
        f == IF staticMember[t]
             THEN [version |-> classVersion[t], mapping |-> versions_mapping]
             ELSE VersionsFind(versions_mapping, hash, classVersion[t])
    IN [version |-> f.version, mapping |-> f.mapping,
        set |-> out_itsVersionedTypes \cup {hash},
        write |-> hash \notin out_itsVersionedTypes]

\* oar(o): processImpl of a type with a versioned serialization function:
\* registerClassVersion, then the function is called with the version and
\* writes the member x
OutVersioned(t) ==
    /\ phase = "out" /\ Len(prog) < MaxOps
    /\ prog' = Append(prog, t)
    /\ LET r == RegisterClassVersion(t) IN
       /\ versions_mapping' = r.mapping
       /\ out_itsVersionedTypes' = r.set
       /\ out_versionGiven' = Append(out_versionGiven, r.version)
       /\ stream' = (IF r.write THEN Append(stream, Token("version", r.version))
                                ELSE stream) \o <<Token("x", t)>>
    /\ UNCHANGED <<engineVars, phase, in_pos, in_op, in_err, type_hash,
                   classVersion, staticMember, in_itsVersionedTypes,
                   in_versionGiven, exceptVersion>>

OpenVersionInput ==
    /\ phase = "out"
    /\ phase' = "in"
    /\ UNCHANGED <<engineVars, prog, stream, in_pos, in_op, in_err, extVars>>

\* InputArchive::loadClassVersion<T>: the cached version of the hash, or the
\* version read from the stream and cached
LoadClassVersion(t) ==
    LET hash == type_hash[t] IN
    IF hash \in DOMAIN in_itsVersionedTypes
    THEN [version |-> in_itsVersionedTypes[hash], map |-> in_itsVersionedTypes,
          read |-> FALSE]
    ELSE [version |-> stream[in_pos + 1].v,
          map |-> MapPut(in_itsVersionedTypes, hash, stream[in_pos + 1].v),
          read |-> TRUE]

\* iar(i): loadClassVersion, then the function is called with the version
\* and reads the member x; a short read throws
InVersioned ==
    /\ InRunning /\ in_op < Len(prog)
    /\ in_op' = in_op + 1
    /\ LET t == prog[in_op + 1]
           cached == type_hash[t] \in DOMAIN in_itsVersionedTypes
           need == IF cached THEN 1 ELSE 2
       IN IF in_pos + need > Len(stream)
          THEN /\ in_err' = "short_read"
               /\ UNCHANGED <<in_pos, in_itsVersionedTypes, in_versionGiven>>
          ELSE LET r == LoadClassVersion(t) IN
               /\ in_itsVersionedTypes' = r.map
               /\ in_versionGiven' = Append(in_versionGiven, r.version)
               /\ in_pos' = in_pos + (IF r.read THEN 2 ELSE 1)
               /\ UNCHANGED in_err
    /\ UNCHANGED <<engineVars, phase, prog, stream, type_hash, classVersion,
                   staticMember, versions_mapping, out_itsVersionedTypes,
                   out_versionGiven, exceptVersion>>

NextVersions ==
    \/ \E t \in VTypes : OutVersioned(t)
    \/ OpenVersionInput
    \/ InVersioned

SpecVersions == InitVersions /\ [][NextVersions]_vars

\* --------------------------------------------- serialization strategies
\* Which processImpl overload handles a value of a class type, from the
\* serialization functions the type declares (access.hpp) and the
\* constraints of the overloads (vide.hpp, cereal.hpp).

Versioned(f) == [name |-> f, versioned |-> TRUE]
Unversioned(f) == [name |-> f, versioned |-> FALSE]
Variants(names) == {Versioned(f) : f \in names} \cup {Unversioned(f) : f \in names}

SerializeFunctions == Variants({"member_serialize", "global_serialize"})
SaveFunctions == Variants({"member_save", "global_save",
                           "member_save_minimal", "global_save_minimal"})
LoadFunctions == Variants({"member_load", "global_load",
                           "member_load_minimal", "global_load_minimal"})
Functions == SerializeFunctions \cup SaveFunctions \cup LoadFunctions

\* get_member_save_minimal_t and its kin: a load_minimal is detected through
\* the return type of the save_minimal of the same place and versioning
SaveMinimalOf(f) ==
    [f EXCEPT !.name = IF f.name = "member_load_minimal"
                       THEN "member_save_minimal" ELSE "global_save_minimal"]
IsLoadMinimal(f) == f.name \in {"member_load_minimal", "global_load_minimal"}

\* access::has_member_serialize ... has_global_load_minimal_versioned
Has(caps, f) ==
    /\ f \in caps
    /\ IsLoadMinimal(f) => SaveMinimalOf(f) \in caps

\* the if-constexpr chain of the generic processImpl, in source order
OutputChain == <<Unversioned("member_serialize"), Unversioned("global_serialize"),
                 Unversioned("member_save"), Unversioned("global_save"),
                 Unversioned("member_save_minimal"), Unversioned("global_save_minimal"),
                 Versioned("member_serialize"), Versioned("global_serialize"),
                 Versioned("member_save"), Versioned("global_save"),
                 Versioned("member_save_minimal"), Versioned("global_save_minimal")>>
InputChain == <<Unversioned("member_serialize"), Unversioned("global_serialize"),
                Unversioned("member_load"), Unversioned("global_load"),
                Unversioned("member_load_minimal"), Unversioned("global_load_minimal"),
                Versioned("member_serialize"), Versioned("global_serialize"),
                Versioned("member_load"), Versioned("global_load"),
                Versioned("member_load_minimal"), Versioned("global_load_minimal")>>
Chain(dir) == IF dir = "out" THEN OutputChain ELSE InputChain

\* access::count_output_serializers / count_input_serializers
count_serializers(dir, caps) ==
    Cardinality({i \in 1..Len(Chain(dir)) : Has(caps, Chain(dir)[i])})

\* access::is_output_serializable / is_input_serializable
is_serializable(dir, caps) == count_serializers(dir, caps) = 1

\* traits::has_invalid_output_versioning / has_invalid_input_versioning
has_invalid_versioning(dir, caps) ==
    \E i \in 1..Len(Chain(dir)) :
        /\ Has(caps, Chain(dir)[i])
        /\ Has(caps, [Chain(dir)[i] EXCEPT !.versioned = ~@])

\* the first function of the chain the type has
FirstInChain(dir, caps) ==
    LET c == Chain(dir)
        hits == {i \in 1..Len(c) : Has(caps, c[i])}
    IN c[CHOOSE i \in hits : \A j \in hits : i <= j]

\* the overloads of processImpl whose constraints the type satisfies
ViableVide(dir, caps, empty, elision) ==
    {o \in {"empty", "generic", "no_match"} :
        \/ o = "empty" /\ ~is_serializable(dir, caps) /\ elision /\ empty
        \/ o = "generic" /\ is_serializable(dir, caps)
        \/ o = "no_match" /\ ~is_serializable(dir, caps)}

ViableCereal(dir, caps, empty, elision) ==
    {o \in {"empty", "generic", "no_match"} :
        \/ o = "empty" /\ elision /\ ~is_serializable(dir, caps) /\ empty
        \/ o = "generic" /\ ~has_invalid_versioning(dir, caps)
                         /\ is_serializable(dir, caps)
        \/ o = "no_match" /\ \/ has_invalid_versioning(dir, caps)
                             \/ /\ ~is_serializable(dir, caps)
                                /\ (~elision \/ (elision /\ ~empty))}

\* the static_asserts of the no-match overload: vide requires
\* count != 0 and count <= 1, cereal count != 0 and count > 1
NoMatchVide(n) ==
    IF n = 0 THEN "error_none" ELSE IF ~(n <= 1) THEN "error_many" ELSE "tag"
NoMatchCereal(n) ==
    IF n = 0 THEN "error_none" ELSE IF ~(n > 1) THEN "error_many" ELSE "tag"

\* processing a value: overload resolution among the viable overloads (two
\* viable ones are equally good: the call is ambiguous), then the body
ProcessImpl(engine, dir, caps, empty, elision) ==
    LET v == IF engine = "vide" THEN ViableVide(dir, caps, empty, elision)
                                ELSE ViableCereal(dir, caps, empty, elision)
        n == count_serializers(dir, caps)
    IN IF Cardinality(v) # 1
       THEN [outcome |-> "error_ambiguous", called |-> "none"]
       ELSE IF v = {"generic"}
       THEN [outcome |-> "dispatched", called |-> FirstInChain(dir, caps).name]
       ELSE IF v = {"empty"}
       THEN [outcome |-> "elided", called |-> "none"]
       ELSE [outcome |-> IF engine = "vide" THEN NoMatchVide(n) ELSE NoMatchCereal(n),
             called |-> "none"]

InitTypes ==
    /\ InitIdleEngine
    /\ InitOtherFeatures({"Dispatch"})
    /\ phase = "out" /\ prog = <<>> /\ stream = <<>>
    /\ in_pos = 0 /\ in_op = 0 /\ in_err = "none"
    /\ d_engine \in {"vide", "cereal"}
    /\ d_dir \in {"out", "in"}
    /\ d_caps \in {c \in SUBSET Functions : Cardinality(c) <= MaxCaps}
    /\ d_empty \in BOOLEAN
    /\ d_elision \in BOOLEAN
    /\ d_outcome = "pending"
    /\ d_called = "none"

\* ar(value) for a value of the type
Process ==
    /\ d_outcome = "pending"
    /\ LET r == ProcessImpl(d_engine, d_dir, d_caps, d_empty, d_elision) IN
       /\ d_outcome' = r.outcome
       /\ d_called' = r.called
    /\ UNCHANGED <<engineVars, phase, prog, stream, in_pos, in_op, in_err,
                   d_engine, d_dir, d_caps, d_empty, d_elision, exceptDispatch>>

NextTypes == Process

SpecTypes == InitTypes /\ [][NextTypes]_vars

\* ------------------------------------------ prologue, dispatch, epilogue
\* cereal's OutputArchive::process / InputArchive::process and vide's
\* process_as, applied to values whose serialization function processes a
\* member value in turn.
Values == 1..MaxValues

Event(k, v) == [kind |-> k, value |-> v]
Call(v, p) == [value |-> v, pc |-> p, events |-> <<>>]

InitCalls ==
    /\ InitIdleEngine
    /\ InitOtherFeatures({"Process"})
    /\ phase = "out" /\ prog = <<>> /\ stream = <<>>
    /\ in_pos = 0 /\ in_op = 0 /\ in_err = "none"
    /\ p_engine \in {"vide", "cereal"}
    /\ p_member \in {m \in [Values -> {0} \cup Values] :
                        \A v \in Values : m[v] = 0 \/ m[v] > v}
    /\ p_stack = <<>>
    /\ p_trace = <<>>
    /\ p_done = {}

\* the engine step a call starts with: cereal's process starts with the
\* prologue, vide's process_as with processImpl
FirstStep(engine) == IF engine = "cereal" THEN "prologue" ELSE "dispatch"

\* ar(v): the caller processes value v
ProcessValue(v) ==
    /\ p_stack = <<>> /\ Len(prog) < MaxOps
    /\ prog' = Append(prog, v)
    /\ p_stack' = <<Call(v, FirstStep(p_engine))>>
    /\ UNCHANGED <<engineVars, phase, stream, in_pos, in_op, in_err,
                   p_engine, p_member, p_trace, p_done, exceptProcess>>

Record(k) ==
    LET c == Last(p_stack) IN
    [c EXCEPT !.events = Append(@, k)]

\* cereal: prologue(self(), var)
Prologue ==
    /\ p_stack # <<>> /\ Last(p_stack).pc = "prologue"
    /\ p_trace' = Append(p_trace, Event("prologue", Last(p_stack).value))
    /\ p_stack' = Append(Pop(p_stack), [Record("prologue") EXCEPT !.pc = "dispatch"])
    /\ UNCHANGED <<engineVars, phase, prog, stream, in_pos, in_op, in_err,
                   p_engine, p_member, p_done, exceptProcess>>

\* self().processImpl(var): the serialization function of the value runs and
\* processes the member value, if any, through the same entry point
Dispatch ==
    /\ p_stack # <<>> /\ Last(p_stack).pc = "dispatch"
    /\ LET c == Last(p_stack)
           after == IF p_engine = "cereal" THEN "epilogue" ELSE "return"
           self == [Record("dispatch") EXCEPT !.pc = after]
       IN /\ p_trace' = Append(p_trace, Event("dispatch", c.value))
          /\ p_stack' = IF p_member[c.value] = 0
                        THEN Append(Pop(p_stack), self)
                        ELSE Append(Append(Pop(p_stack), self),
                                    Call(p_member[c.value], FirstStep(p_engine)))
    /\ UNCHANGED <<engineVars, phase, prog, stream, in_pos, in_op, in_err,
                   p_engine, p_member, p_done, exceptProcess>>

\* cereal: epilogue(self(), var), then process returns
Epilogue ==
    /\ p_stack # <<>> /\ Last(p_stack).pc = "epilogue"
    /\ p_trace' = Append(p_trace, Event("epilogue", Last(p_stack).value))
    /\ p_done' = p_done \cup {Record("epilogue").events}
    /\ p_stack' = Pop(p_stack)
    /\ UNCHANGED <<engineVars, phase, prog, stream, in_pos, in_op, in_err,
                   p_engine, p_member, exceptProcess>>

\* vide: process_as returns after processImpl
Return ==
    /\ p_stack # <<>> /\ Last(p_stack).pc = "return"
    /\ p_done' = p_done \cup {Last(p_stack).events}
    /\ p_stack' = Pop(p_stack)
    /\ UNCHANGED <<engineVars, phase, prog, stream, in_pos, in_op, in_err,
                   p_engine, p_member, p_trace, exceptProcess>>

NextCalls ==
    \/ \E v \in Values : ProcessValue(v)
    \/ Prologue
    \/ Dispatch
    \/ Epilogue
    \/ Return

SpecCalls == InitCalls /\ [][NextCalls]_vars

\* ---------------------------------------------------------------------------
\* polymorphic type names: OutputArchive::registerPolymorphicType
\* ---------------------------------------------------------------------------

\* the name strings of the registered types (binding_name<T>::name()), one
\* string per registered type
TypeNames == 1..MaxNames

\* a variant that hands out an id and forgets the name
registerPolymorphicType_Forget(map, cur, name) ==
    [map |-> map, cur |-> Inc(cur), id |-> OrMsb(cur)]

\* registerPolymorphicType(name) on the table map and the counter cur: the
\* table and the counter it leaves, and the id it returns
registerPolymorphicType(map, cur, name) ==
    IF name \notin DOMAIN map
    THEN [map |-> MapPut(map, name, cur), cur |-> Inc(cur), id |-> OrMsb(cur)]
    ELSE [map |-> map, cur |-> cur, id |-> map[name]]

\* an output archive with an empty name table
InitNames ==
    /\ InitIdleEngine
    /\ InitExt
    /\ phase = "out"
    /\ prog = <<>>
    /\ stream = <<>>
    /\ in_pos = 0
    /\ in_op = 0
    /\ in_err = "none"

\* ar.registerPolymorphicType(name); prog keeps the names and stream the ids
\* returned
RegisterPolymorphicType(name) ==
    /\ phase = "out" /\ Len(prog) < MaxCalls
    /\ LET r == registerPolymorphicType(out_itsPolymorphicTypeMap,
                                        out_itsCurrentPolymorphicTypeId, name)
       IN /\ out_itsPolymorphicTypeMap' = r.map
          /\ out_itsCurrentPolymorphicTypeId' = r.cur
          /\ prog' = Append(prog, name)
          /\ stream' = Append(stream, r.id)
    /\ UNCHANGED <<engineVars, exceptPoly, phase, in_pos, in_op, in_err,
                   in_itsPolymorphicTypeMap, bindingMapOutput, bindingMapInput,
                   poly_err, poly_name>>

NextNames == \E name \in TypeNames : RegisterPolymorphicType(name)

SpecNames == InitNames /\ [][NextNames]_vars

\* ---------------------------------------------------------------------------
\* saving pointers to polymorphic types: types/polymorphic.hpp
\* ---------------------------------------------------------------------------

\* the concrete polymorphic classes; the declared type of a pointer is one of
\* them or an abstract base class of them
PolyTypes == 1..MaxTypes
AbstractBase == 0
DeclaredTypes == {AbstractBase} \cup PolyTypes

\* std::is_abstract<T>
is_abstract(t) == t = AbstractBase

\* typeid(*ptr.get()) of the object at node n
TypeOf(n) == ((n - 1) % MaxTypes) + 1

\* binding_name<T>::name() of a registered type
BindingName(t) == t

PolyOp(t, n) == [op |-> "save_polymorphic", ptr |-> n, declared |-> t]

\* OutputBindingCreator's shared_ptr serializer: the id of the type's name,
\* the name itself the first time, then the pointer
OutputBindingThunk(t, n) ==
    LET r == registerPolymorphicType(out_itsPolymorphicTypeMap,
                                     out_itsCurrentPolymorphicTypeId, BindingName(t))
    IN /\ out_itsPolymorphicTypeMap' = r.map
       /\ out_itsCurrentPolymorphicTypeId' = r.cur
       /\ stream' = (IF HasMsb(r.id)
                     THEN stream \o <<Token("polymorphic_id", r.id),
                                      Token("polymorphic_name", BindingName(t))>>
                     ELSE Append(stream, Token("polymorphic_id", r.id)))
       /\ stack' = <<Frame("save_ptr", "start", n, TopSlot(0))>>

\* every object's pointer member is null; the bindings were registered during
\* static initialisation
InitPolySave ==
    /\ InitIdleEngine
    /\ InitOtherFeatures({"Poly"})
    /\ out_itsPolymorphicTypeMap = EmptyMap
    /\ out_itsCurrentPolymorphicTypeId = One
    /\ in_itsPolymorphicTypeMap = EmptyMap
    /\ bindingMapOutput \in SUBSET PolyTypes
    /\ bindingMapInput = {}
    /\ poly_err = ""
    /\ poly_name = 0
    /\ phase = "out"
    /\ prog = <<>>
    /\ stream = <<>>
    /\ in_pos = 0
    /\ in_op = 0
    /\ in_err = "none"

\* a variant that looks no binding up
SavePolymorphic_NoLookup(t, n) ==
    /\ phase = "out" /\ stack = <<>> /\ Len(prog) < MaxOps /\ poly_err = ""
    /\ n # Null => (is_abstract(t) => TypeOf(n) # t)
    /\ prog' = Append(prog, PolyOp(t, n))
    /\ IF n = Null
       THEN /\ stream' = Append(stream, Token("polymorphic_id", Zero))
            /\ UNCHANGED <<stack, out_itsPolymorphicTypeMap,
                           out_itsCurrentPolymorphicTypeId, poly_err>>
       ELSE /\ OutputBindingThunk(TypeOf(n), n)
            /\ UNCHANGED poly_err
    /\ UNCHANGED <<exceptPoly, next, deferEdges, phase, out_itsSharedPointerMap,
                   out_itsSharedPointerStorage, out_itsCurrentPointerId,
                   out_itsDeferments, inVars, flushed, in_itsPolymorphicTypeMap,
                   bindingMapOutput, bindingMapInput, poly_name>>

\* oar(ptr) for a std::shared_ptr<T> of a polymorphic T = t pointing to node n
\* (or null): both overloads of save, abstract and not abstract
SavePolymorphic(t, n) ==
    /\ phase = "out" /\ stack = <<>> /\ Len(prog) < MaxOps /\ poly_err = ""
    /\ n # Null => (is_abstract(t) => TypeOf(n) # t)
    /\ prog' = Append(prog, PolyOp(t, n))
    /\ IF n = Null
       THEN /\ stream' = Append(stream, Token("polymorphic_id", Zero))
            /\ UNCHANGED <<stack, out_itsPolymorphicTypeMap,
                           out_itsCurrentPolymorphicTypeId, poly_err>>
       ELSE IF ~is_abstract(t) /\ TypeOf(n) = t
       THEN /\ stream' = Append(stream, Token("polymorphic_id", Word(FALSE, msb2_32bit)))
            /\ stack' = <<Frame("save_ptr", "start", n, TopSlot(0))>>
            /\ UNCHANGED <<out_itsPolymorphicTypeMap,
                           out_itsCurrentPolymorphicTypeId, poly_err>>
       ELSE IF TypeOf(n) \notin bindingMapOutput
       THEN /\ poly_err' = "unregistered polymorphic type"
            /\ UNCHANGED <<stream, stack, out_itsPolymorphicTypeMap,
                           out_itsCurrentPolymorphicTypeId>>
       ELSE /\ OutputBindingThunk(TypeOf(n), n)
            /\ UNCHANGED poly_err
    /\ UNCHANGED <<exceptPoly, next, deferEdges, phase, out_itsSharedPointerMap,
                   out_itsSharedPointerStorage, out_itsCurrentPointerId,
                   out_itsDeferments, inVars, flushed, in_itsPolymorphicTypeMap,
                   bindingMapOutput, bindingMapInput, poly_name>>

NextPolySave ==
    \/ \E t \in DeclaredTypes, n \in {Null} \cup Nodes : SavePolymorphic(t, n)
    \/ OutSavePtr
    \/ OutSerializeDirect

SpecPolySave == InitPolySave /\ [][NextPolySave]_vars

\* ---------------------------------------------------------------------------
\* loading pointers to polymorphic types: types/polymorphic.hpp
\* ---------------------------------------------------------------------------

\* nameid & msb2_32bit
HasMsb2(id) == id.low \div msb2_32bit = 1

RawWord(w) == Token("raw", w)
RawName(n) == Token("name", n)

\* what a stream may hold after a polymorphic id: a null pointer, or a first
\* sight of an object with its value and a null pointer member
PtrPayloads == {<<RawWord(Zero)>>,
                <<RawWord(OrMsb(One)), RawWord(NodeValue(1)), RawWord(Zero)>>}

\* the type ids a stream may use
PolyIds == {One, Inc(One)}

\* what a stream may hold for one polymorphic pointer: id 0, the sentinel and
\* a pointer, a flagged id with a name and a pointer, an unflagged id and a
\* pointer
PolyItems ==
    {<<RawWord(Zero)>>}
    \cup {<<RawWord(Word(FALSE, msb2_32bit))>> \o p : p \in PtrPayloads}
    \cup {<<RawWord(OrMsb(i)), RawName(n)>> \o p :
              i \in PolyIds, n \in TypeNames, p \in PtrPayloads}
    \cup {<<RawWord(i)>> \o p : i \in PolyIds, p \in PtrPayloads}

\* InputArchive::registerPolymorphicName(id, name): unordered_map::insert
\* leaves an existing entry alone
registerPolymorphicName(map, id, name) ==
    IF StripMsb(id) \in DOMAIN map THEN map ELSE MapPut(map, StripMsb(id), name)

\* InputArchive::getPolymorphicName(id): found is FALSE where the code throws
getPolymorphicName(map, id) ==
    IF id \in DOMAIN map THEN [found |-> TRUE, name |-> map[id]]
    ELSE [found |-> FALSE, name |-> 0]

\* InputBindingCreator's shared_ptr serializer: loads the pointer of the bound
\* type into the caller's k-th variable
InputBindingThunk(k) ==
    stack' = <<Frame("load_ptr", "start", 0, TopSlot(k))>>

\* an input archive over a stream yet to be read; the input bindings were
\* registered during static initialisation, one name per bound type
InitPolyLoad ==
    /\ InitIdleEngine
    /\ InitOtherFeatures({"Poly"})
    /\ out_itsPolymorphicTypeMap = EmptyMap
    /\ out_itsCurrentPolymorphicTypeId = One
    /\ in_itsPolymorphicTypeMap = EmptyMap
    /\ bindingMapOutput = {}
    /\ \E bound \in SUBSET PolyTypes :
          bindingMapInput = {BindingName(t) : t \in bound}
    /\ poly_err = ""
    /\ poly_name = 0
    /\ phase = "in"
    /\ prog = <<>>
    /\ stream = <<>>
    /\ in_pos = 0
    /\ in_op = 0
    /\ in_err = "none"

\* polymorphic_detail::aux_getInputBinding for a non-zero id, after the name
\* is known: the binding of the name, or the exception
ResolveBinding(name, k) ==
    /\ poly_name' = name
    /\ IF name \notin bindingMapInput
       THEN InThrow("unregistered polymorphic type")
       ELSE /\ InputBindingThunk(k)
            /\ UNCHANGED in_err

\* iar(ptr) for a std::shared_ptr<T> of a concrete, default constructible
\* polymorphic T; item is what the stream holds for it
LoadPolymorphic(item) ==
    /\ InRunning /\ stack = <<>> /\ Len(prog) < MaxLoads
    /\ in_pos = Len(stream)
    /\ prog' = Append(prog, [op |-> "load_polymorphic", ptr |-> Null])
    /\ stream' = stream \o item
    /\ in_op' = in_op + 1
    /\ LET k == Len(prog) + 1
           nameid == item[1].v
       IN IF HasMsb2(nameid)
          THEN \* serialize_wrapper: the pointer follows, no binding needed
               /\ in_pos' = in_pos + 1
               /\ handles' = Append(handles, Null)
               /\ stack' = <<Frame("load_ptr", "start", 0, TopSlot(k))>>
               /\ UNCHANGED <<in_itsPolymorphicTypeMap, poly_name, in_err>>
          ELSE IF nameid = Zero
          THEN \* the empty serializers reset the pointer
               /\ in_pos' = in_pos + 1
               /\ handles' = Append(handles, Null)
               /\ UNCHANGED <<stack, in_itsPolymorphicTypeMap, poly_name, in_err>>
          ELSE IF HasMsb(nameid)
          THEN /\ in_pos' = in_pos + 2
               /\ handles' = Append(handles, Null)
               /\ in_itsPolymorphicTypeMap' =
                      registerPolymorphicName(in_itsPolymorphicTypeMap, nameid, item[2].v)
               /\ ResolveBinding(item[2].v, k)
          ELSE LET g == getPolymorphicName(in_itsPolymorphicTypeMap, nameid) IN
               /\ in_pos' = in_pos + 1
               /\ handles' = Append(handles, Null)
               /\ UNCHANGED in_itsPolymorphicTypeMap
               /\ IF g.found
                  THEN ResolveBinding(g.name, k)
                  ELSE /\ InThrow("unknown polymorphic id")
                       /\ UNCHANGED poly_name
    /\ UNCHANGED <<exceptPoly, next, deferEdges, phase, outVars,
                   in_itsSharedPointerMap, in_itsDeferments, inst, flushed,
                   out_itsPolymorphicTypeMap, out_itsCurrentPolymorphicTypeId,
                   bindingMapOutput, bindingMapInput, poly_err>>

NextPolyLoad ==
    \/ \E item \in PolyItems : LoadPolymorphic(item)
    \/ InLoadPtr
    \/ InSerializeDirect

SpecPolyLoad == InitPolyLoad /\ [][NextPolyLoad]_vars

\* ---------------------------------------------------------------------------
\* sequences read from a portable binary stream: types/string.hpp,
\* types/vector.hpp, InputArchive::validate_read_size
\* ---------------------------------------------------------------------------

\* sizeof(size_type): VIDE_SIZE_TYPE is uint32_t
SizeTypeBytes == 4

\* sizeof(T) of the elements: char and a 32 bit scalar
ElementSizes == {1, SizeTypeBytes}

\* the element counts a size tag may hold
Counts == 0..MaxCount

SeqEvent(k, n) == [kind |-> k, bytes |-> n]
SeqOp(o, n, sz) == [op |-> o, ptr |-> Null, count |-> n, size |-> sz]

\* PortableBinaryInputArchive::loadBinary(data, size): sgetn takes what the
\* stream has; ok is FALSE where the code throws
loadBinary(remaining, size) ==
    [ok |-> size <= remaining,
     remaining |-> IF size <= remaining THEN remaining - size ELSE 0,
     events |-> <<SeqEvent("read", size)>>]

\* PortableBinaryInputArchive::maximumBinaryReadSize
maximumBinaryReadSize(remaining) == remaining

\* InputArchive::validate_read_size<T>(numElements): FALSE where it throws
validate_read_size(remaining, numElements, sizeofT) ==
    ~(numElements * sizeofT > maximumBinaryReadSize(remaining))

\* load(std::basic_string<CharT>) after the size tag, binary data supported
LoadStringBody(remaining, count, sizeofT) ==
    IF ~validate_read_size(remaining, count, sizeofT)
    THEN [err |-> "read_size_validation", remaining |-> remaining, events |-> <<>>]
    ELSE LET r == loadBinary(remaining, count * sizeofT) IN
         [err |-> IF r.ok THEN "none" ELSE "short_read",
          remaining |-> r.remaining,
          events |-> <<SeqEvent("alloc", count * sizeofT)>> \o r.events]

\* load(std::vector<T>) of an arithmetic T after the size tag: resize, then
\* the elements as one block of binary data
LoadVectorBody(remaining, count, sizeofT) ==
    LET r == loadBinary(remaining, count * sizeofT) IN
    [err |-> IF r.ok THEN "none" ELSE "short_read",
     remaining |-> r.remaining,
     events |-> <<SeqEvent("alloc", count * sizeofT)>> \o r.events]

\* a portable binary input archive over a stream of any length, its
\* endianness byte read
InitSeqs ==
    /\ InitIdleEngine
    /\ InitOtherFeatures({"Seq"})
    /\ sq_remaining \in 0..MaxStreamBytes
    /\ sq_events = <<>>
    /\ phase = "in"
    /\ prog = <<>>
    /\ stream = <<>>
    /\ in_pos = 0
    /\ in_op = 0
    /\ in_err = "none"

\* the size tag of a sequence read as tag, then its body read as b
AfterSizeTag(tag, b) ==
    IF ~tag.ok
    THEN [err |-> "short_read", remaining |-> tag.remaining, events |-> tag.events]
    ELSE [err |-> b.err, remaining |-> b.remaining, events |-> tag.events \o b.events]

\* iar(str) for a std::basic_string; count is what the stream holds as the
\* size tag
LoadString(count, sizeofT) ==
    /\ InRunning /\ Len(prog) < MaxLoads
    /\ prog' = Append(prog, SeqOp("load_string", count, sizeofT))
    /\ in_op' = in_op + 1
    /\ LET tag == loadBinary(sq_remaining, SizeTypeBytes)
           r == AfterSizeTag(tag, LoadStringBody(tag.remaining, count, sizeofT))
       IN /\ in_err' = r.err
          /\ sq_remaining' = r.remaining
          /\ sq_events' = sq_events \o r.events
    /\ UNCHANGED <<engineVars, exceptSeq, phase, stream, in_pos>>

\* iar(vector) for a std::vector of an arithmetic type
LoadVector(count, sizeofT) ==
    /\ InRunning /\ Len(prog) < MaxLoads
    /\ prog' = Append(prog, SeqOp("load_vector", count, sizeofT))
    /\ in_op' = in_op + 1
    /\ LET tag == loadBinary(sq_remaining, SizeTypeBytes)
           r == AfterSizeTag(tag, LoadVectorBody(tag.remaining, count, sizeofT))
       IN /\ in_err' = r.err
          /\ sq_remaining' = r.remaining
          /\ sq_events' = sq_events \o r.events
    /\ UNCHANGED <<engineVars, exceptSeq, phase, stream, in_pos>>

NextSeqs ==
    \/ \E count \in Counts, sizeofT \in ElementSizes : LoadString(count, sizeofT)
    \/ \E count \in Counts, sizeofT \in ElementSizes : LoadVector(count, sizeofT)

SpecSeqs == InitSeqs /\ [][NextSeqs]_vars

\* ---------------------------------------------------------------------------
\* portable binary archives: the endianness byte and the byte swap flag
\* ---------------------------------------------------------------------------

\* Options::Default(), Options::LittleEndian(), Options::BigEndian()
EndianOptions == {"default", "little", "big"}

\* the values a leading byte of a stream may have
LeadingBytes == 0..MaxByte

\* the 16 bit values saved
Shorts == {1, 258}

\* a bool as a std::uint8_t
AsByte(b) == IF b THEN 1 ELSE 0

\* a ^ b on unsigned bytes
RECURSIVE BitXor(_, _)
BitXor(a, b) ==
    IF a = 0 /\ b = 0 THEN 0
    ELSE ((a + b) % 2) + 2 * BitXor(a \div 2, b \div 2)

\* portable_binary_detail::is_little_endian() on a machine
is_little_endian(machineLittle) == AsByte(machineLittle)

\* Options::is_little_endian(): the endianness asked for, the machine's own
\* if none was
options_is_little_endian(options, machineLittle) ==
    IF options = "default" THEN is_little_endian(machineLittle)
    ELSE AsByte(options = "little")

\* the bytes of a 16 bit value in the memory of a machine, and back
MemoryBytes(n, machineLittle) ==
    IF machineLittle THEN <<n % 256, n \div 256>> ELSE <<n \div 256, n % 256>>
FromMemory(b, machineLittle) ==
    IF machineLittle THEN b[1] + 256 * b[2] ELSE 256 * b[1] + b[2]

\* portable_binary_detail::swap_bytes<2>
swap_bytes(b) == <<b[2], b[1]>>

\* PortableBinaryOutputArchive: itsConvertEndianness(is_little_endian() ^
\* options.is_little_endian())
OutputConvertEndianness(options, machineLittle) ==
    BitXor(is_little_endian(machineLittle),
           options_is_little_endian(options, machineLittle)) # 0

\* a constructor that leaves the flag as initialised
InputConvertEndianness_Initial(options, machineLittle, streamLittleEndian) == FALSE

\* PortableBinaryInputArchive: itsConvertEndianness = options.is_little_endian()
\* ^ streamLittleEndian
InputConvertEndianness(options, machineLittle, streamLittleEndian) ==
    BitXor(options_is_little_endian(options, machineLittle), streamLittleEndian) # 0

\* two machines and no archive yet
InitPortable ==
    /\ InitIdleEngine
    /\ InitOtherFeatures({"Endian"})
    /\ pb_outLocal \in BOOLEAN
    /\ pb_inLocal \in BOOLEAN
    /\ pb_outOpen = FALSE
    /\ pb_outConvert = FALSE
    /\ pb_inOptions = "default"
    /\ pb_inConvert = FALSE
    /\ pb_saved = <<>>
    /\ pb_loaded = <<>>
    /\ phase = "out"
    /\ prog = <<>>
    /\ stream = <<>>
    /\ in_pos = 0
    /\ in_op = 0
    /\ in_err = "none"

\* PortableBinaryOutputArchive oar(stream, options): writes the endianness byte
ConstructOutput(options) ==
    /\ phase = "out" /\ ~pb_outOpen /\ stream = <<>>
    /\ pb_outOpen' = TRUE
    /\ pb_outConvert' = OutputConvertEndianness(options, pb_outLocal)
    /\ stream' = <<options_is_little_endian(options, pb_outLocal)>>
    /\ UNCHANGED <<engineVars, exceptEndian, phase, prog, in_pos, in_op, in_err,
                   pb_outLocal, pb_inLocal, pb_inOptions, pb_inConvert, pb_saved,
                   pb_loaded>>

\* oar(n) for a std::uint16_t: saveBinary<2> swaps the bytes if the flag is set
SaveShort(n) ==
    /\ phase = "out" /\ pb_outOpen /\ Len(pb_saved) < MaxSaved
    /\ pb_saved' = Append(pb_saved, n)
    /\ stream' = stream \o (IF pb_outConvert
                            THEN swap_bytes(MemoryBytes(n, pb_outLocal))
                            ELSE MemoryBytes(n, pb_outLocal))
    /\ UNCHANGED <<engineVars, exceptEndian, phase, prog, in_pos, in_op, in_err,
                   pb_outLocal, pb_inLocal, pb_outOpen, pb_outConvert, pb_inOptions,
                   pb_inConvert, pb_loaded>>

\* a stream that no PortableBinaryOutputArchive wrote: a leading byte and one
\* 16 bit value
ForeignStream(b, n) ==
    /\ phase = "out" /\ ~pb_outOpen /\ stream = <<>>
    /\ stream' = <<b>> \o MemoryBytes(n, TRUE)
    /\ UNCHANGED <<engineVars, exceptEndian, phase, prog, in_pos, in_op, in_err,
                   endianVars>>

\* PortableBinaryInputArchive iar(stream, options): reads the endianness byte
ConstructInput(options) ==
    /\ phase = "out"
    /\ phase' = "in"
    /\ pb_inOptions' = options
    /\ IF stream = <<>>
       THEN /\ in_err' = "short_read"
            /\ UNCHANGED <<in_pos, pb_inConvert>>
       ELSE /\ in_pos' = 1
            /\ pb_inConvert' = InputConvertEndianness(options, pb_inLocal, stream[1])
            /\ UNCHANGED in_err
    /\ UNCHANGED <<engineVars, exceptEndian, prog, stream, in_op, pb_outLocal,
                   pb_inLocal, pb_outOpen, pb_outConvert, pb_saved, pb_loaded>>

\* iar(n) for a std::uint16_t: loadBinary<2> swaps the bytes if the flag is set
LoadShort ==
    /\ InRunning /\ Len(pb_loaded) < MaxSaved
    /\ IF in_pos + 2 > Len(stream)
       THEN /\ in_err' = "short_read"
            /\ in_pos' = Len(stream)
            /\ UNCHANGED pb_loaded
       ELSE LET b == SubSeq(stream, in_pos + 1, in_pos + 2) IN
            /\ in_pos' = in_pos + 2
            /\ pb_loaded' = Append(pb_loaded,
                   FromMemory(IF pb_inConvert THEN swap_bytes(b) ELSE b, pb_inLocal))
            /\ UNCHANGED in_err
    /\ UNCHANGED <<engineVars, exceptEndian, phase, prog, stream, in_op, pb_outLocal,
                   pb_inLocal, pb_outOpen, pb_outConvert, pb_inOptions, pb_inConvert,
                   pb_saved>>

NextPortable ==
    \/ \E options \in EndianOptions : ConstructOutput(options)
    \/ \E n \in Shorts : SaveShort(n)
    \/ \E b \in LeadingBytes, n \in Shorts : ForeignStream(b, n)
    \/ \E options \in EndianOptions : ConstructInput(options)
    \/ LoadShort

SpecPortable == InitPortable /\ [][NextPortable]_vars

\* ---------------------------------------------------------------------------
\* binary archives: saveBinary and loadBinary on a stream that may transfer
\* fewer bytes than asked
\* ---------------------------------------------------------------------------

\* the sizes of the values transferred: 1, 2 and 4 byte scalars
TransferSizes == {1, 2, SizeTypeBytes}

\* a saveBinary that does not compare the count written
saveBinary_Unchecked(room, size) ==
    [ok |-> TRUE,
     remaining |-> IF size <= room THEN room - size ELSE 0,
     events |-> <<SeqEvent("write", size)>>]

\* BinaryOutputArchive::saveBinary(data, size) on a stream with room for room
\* bytes: sputn writes what fits; ok is FALSE where the code throws
saveBinary(room, size) ==
    [ok |-> size <= room,
     remaining |-> IF size <= room THEN room - size ELSE 0,
     events |-> <<SeqEvent("write", size)>>]

\* a binary archive, output or input, over a stream that can still transfer
\* sq_remaining bytes
InitTransfer ==
    /\ InitIdleEngine
    /\ InitOtherFeatures({"Seq"})
    /\ sq_remaining \in 0..MaxStreamBytes
    /\ sq_events = <<>>
    /\ phase \in {"out", "in"}
    /\ prog = <<>>
    /\ stream = <<>>
    /\ in_pos = 0
    /\ in_op = 0
    /\ in_err = "none"

\* oar(t) for an arithmetic t of size bytes
SaveBinary(size) ==
    /\ phase = "out" /\ in_err = "none" /\ Len(prog) < MaxLoads
    /\ prog' = Append(prog, SeqOp("saveBinary", 1, size))
    /\ LET r == saveBinary(sq_remaining, size) IN
       /\ in_err' = (IF r.ok THEN "none" ELSE "short_write")
       /\ sq_remaining' = r.remaining
       /\ sq_events' = sq_events \o r.events
    /\ UNCHANGED <<engineVars, exceptSeq, phase, stream, in_pos, in_op>>

\* iar(t) for an arithmetic t of size bytes
LoadBinary(size) ==
    /\ InRunning /\ Len(prog) < MaxLoads
    /\ prog' = Append(prog, SeqOp("loadBinary", 1, size))
    /\ LET r == loadBinary(sq_remaining, size) IN
       /\ in_err' = (IF r.ok THEN "none" ELSE "short_read")
       /\ sq_remaining' = r.remaining
       /\ sq_events' = sq_events \o r.events
    /\ UNCHANGED <<engineVars, exceptSeq, phase, stream, in_pos, in_op>>

NextTransfer ==
    \/ \E size \in TransferSizes : SaveBinary(size)
    \/ \E size \in TransferSizes : LoadBinary(size)

SpecTransfer == InitTransfer /\ [][NextTransfer]_vars

\* ---------------------------------------------------------------------------
\* the tree output archive: JSONOutputArchive (cereal/archives/json.hpp)
\* ---------------------------------------------------------------------------

\* nullptr as a name, the names of name-value pairs, and "value" + k
NoName == <<>>
ExplicitNames == {<<"a">>, <<"b">>}
GeneratedName(k) == <<"value", k>>

\* the one value saved: saveValue(int)
IntValue == <<"int", 7>>

\* a call on the rapidjson writer
Writer(call, x) == Token(call, x)

SetTop(s, x) == [s EXCEPT ![Len(s)] = x]

\* the archive's members as one record, out being the writer calls made
JsonState == [nodes |-> js_nodeStack, counters |-> js_nameCounter,
              name |-> js_nextName, out |-> stream]

\* a writeName that names values in arrays too
writeName_NamesInArrays(st) ==
    LET t == Last(st.nodes)
        o == IF t = "StartArray"
             THEN [st EXCEPT !.out = Append(@, Writer("StartArray", NoName)),
                             !.nodes = SetTop(@, "InArray")]
             ELSE IF t = "StartObject"
             THEN [st EXCEPT !.nodes = SetTop(@, "InObject"),
                             !.out = Append(@, Writer("StartObject", NoName))]
             ELSE st
    IN IF o.name = NoName
       THEN [o EXCEPT !.out = Append(@, Writer("String", GeneratedName(Last(o.counters)))),
                      !.counters = SetTop(@, Last(@) + 1)]
       ELSE [o EXCEPT !.out = Append(@, Writer("String", o.name)),
                      !.name = NoName]

\* JSONOutputArchive::writeName: opens a pending node, then writes the name
\* unless the node is an array (nodeType refers to the top of the stack, so it
\* reads the state just assigned)
writeName(st) ==
    LET t == Last(st.nodes)
        o == IF t = "StartArray"
             THEN [st EXCEPT !.out = Append(@, Writer("StartArray", NoName)),
                             !.nodes = SetTop(@, "InArray")]
             ELSE IF t = "StartObject"
             THEN [st EXCEPT !.nodes = SetTop(@, "InObject"),
                             !.out = Append(@, Writer("StartObject", NoName))]
             ELSE st
    IN IF Last(o.nodes) = "InArray" THEN o
       ELSE IF o.name = NoName
       THEN [o EXCEPT !.out = Append(@, Writer("String", GeneratedName(Last(o.counters)))),
                      !.counters = SetTop(@, Last(@) + 1)]
       ELSE [o EXCEPT !.out = Append(@, Writer("String", o.name)),
                      !.name = NoName]

\* JSONOutputArchive::startNode
startNode(st) ==
    LET w == writeName(st) IN
    [w EXCEPT !.nodes = Append(@, "StartObject"), !.counters = Append(@, 0)]

\* a finishNode that closes only what writeName opened
finishNode_OpenedOnly(st) ==
    LET t == Last(st.nodes)
        closed == IF t = "InArray" THEN <<Writer("EndArray", NoName)>>
                  ELSE IF t = "InObject" THEN <<Writer("EndObject", NoName)>>
                  ELSE <<>>
    IN [st EXCEPT !.out = @ \o closed, !.nodes = Pop(@), !.counters = Pop(@)]

\* JSONOutputArchive::finishNode
finishNode(st) ==
    LET t == Last(st.nodes)
        closed == IF t = "StartArray"
                  THEN <<Writer("StartArray", NoName), Writer("EndArray", NoName)>>
                  ELSE IF t = "InArray" THEN <<Writer("EndArray", NoName)>>
                  ELSE IF t = "StartObject"
                  THEN <<Writer("StartObject", NoName), Writer("EndObject", NoName)>>
                  ELSE <<Writer("EndObject", NoName)>>
    IN [st EXCEPT !.out = @ \o closed, !.nodes = Pop(@), !.counters = Pop(@)]

\* a makeArray that leaves the node as it is
makeArray_Nothing(st) == st

\* JSONOutputArchive::makeArray
makeArray(st) == [st EXCEPT !.nodes = SetTop(@, "StartArray")]

\* process_as(NameValuePair): setNextName(t.name) before the value; n is
\* NoName for a value outside a name-value pair
setNextName(st, n) == IF n = NoName THEN st ELSE [st EXCEPT !.name = n]

TreeOp(o, n) == [op |-> o, ptr |-> Null, name |-> n]

\* the members after a call
JsonBecomes(st) ==
    /\ js_nodeStack' = st.nodes
    /\ js_nameCounter' = st.counters
    /\ js_nextName' = st.name
    /\ stream' = st.out

\* a JSONOutputArchive just constructed
InitTree ==
    /\ InitIdleEngine
    /\ InitExt
    /\ phase = "out"
    /\ prog = <<>>
    /\ stream = <<>>
    /\ in_pos = 0
    /\ in_op = 0
    /\ in_err = "none"

\* ar(v) or ar(make_nvp(n, v)) for an int: prologue writes the name, then
\* saveValue
TreeSaveValue(n) ==
    /\ phase = "out" /\ Len(prog) < MaxTreeOps
    /\ prog' = Append(prog, TreeOp("value", n))
    /\ LET w == writeName(setNextName(JsonState, n)) IN
       JsonBecomes([w EXCEPT !.out = Append(@, Writer("Int", IntValue))])
    /\ UNCHANGED <<engineVars, exceptJson, phase, in_pos, in_op, in_err>>

\* the prologue of a value of a class type, named or not: startNode
TreeStartNode(n) ==
    /\ phase = "out" /\ Len(prog) < MaxTreeOps /\ Len(js_nodeStack) <= MaxDepth
    /\ prog' = Append(prog, TreeOp("startNode", n))
    /\ JsonBecomes(startNode(setNextName(JsonState, n)))
    /\ UNCHANGED <<engineVars, exceptJson, phase, in_pos, in_op, in_err>>

\* the epilogue of a value of a class type: finishNode
TreeFinishNode ==
    /\ phase = "out" /\ Len(prog) < MaxTreeOps /\ Len(js_nodeStack) > 1
    /\ prog' = Append(prog, TreeOp("finishNode", NoName))
    /\ JsonBecomes(finishNode(JsonState))
    /\ UNCHANGED <<engineVars, exceptJson, phase, in_pos, in_op, in_err>>

\* ar(make_size_tag(n)): the prologue of a SizeTag is makeArray, nothing is
\* saved
TreeSizeTag ==
    /\ phase = "out" /\ Len(prog) < MaxTreeOps
    /\ prog' = Append(prog, TreeOp("sizeTag", NoName))
    /\ JsonBecomes(makeArray(JsonState))
    /\ UNCHANGED <<engineVars, exceptJson, phase, in_pos, in_op, in_err>>

\* ~JSONOutputArchive: closes the root if it was opened
TreeDestroy ==
    /\ phase = "out" /\ Len(js_nodeStack) = 1
    /\ phase' = "done"
    /\ stream' = stream \o
          (IF Last(js_nodeStack) = "InObject" THEN <<Writer("EndObject", NoName)>>
           ELSE IF Last(js_nodeStack) = "InArray" THEN <<Writer("EndArray", NoName)>>
           ELSE <<>>)
    /\ UNCHANGED <<engineVars, exceptJson, jsonVars, prog, in_pos, in_op, in_err>>

NextTree ==
    \/ \E n \in {NoName} \cup ExplicitNames : TreeSaveValue(n)
    \/ \E n \in {NoName} \cup ExplicitNames : TreeStartNode(n)
    \/ TreeFinishNode
    \/ TreeSizeTag
    \/ TreeDestroy

SpecTree == InitTree /\ [][NextTree]_vars

\* ---------------------------------------------------------------------------
\* the tree input archive: JSONInputArchive (cereal/archives/json.hpp)
\* ---------------------------------------------------------------------------

FieldNames == ExplicitNames \cup {<<"c">>}

\* a parsed value: a number or an object with members
JsonInt(k) == [kind |-> "int", int |-> k, members |-> <<>>]
JsonObject(ms) == [kind |-> "object", int |-> 0, members |-> ms]
Member(n, v) == [name |-> n, value |-> v]

\* the object nested in a document: {"b": 11, "a": 12}
NestedObject == JsonObject(<<Member(<<"b">>, JsonInt(11)), Member(<<"a">>, JsonInt(12))>>)

\* the documents parsed: objects of up to MaxMembers members, member i being
\* the number i or the nested object, under any name
TreeDocuments ==
    UNION {{[i \in 1..n |-> Member(s[i][1], IF s[i][2] = "int" THEN JsonInt(i) ELSE NestedObject)] :
              s \in [1..n -> FieldNames \X {"int", "object"}]} : n \in 0..MaxMembers}

\* Iterator(MemberIterator begin, MemberIterator end), itsIndex 0
Iterator(ms) == [members |-> ms, index |-> 0]

\* Iterator::name: nullptr at the end or for an empty object
IteratorName(it) ==
    IF it.index < Len(it.members) THEN it.members[it.index + 1].name ELSE NoName

\* an Iterator::search that looks from the cursor on only
IteratorSearch_FromCursor(it, searchName) ==
    LET hits == {i \in 0..(Len(it.members) - 1) :
                   i >= it.index /\ it.members[i + 1].name = searchName}
    IN IF hits = {} THEN [ok |-> FALSE, it |-> it]
       ELSE [ok |-> TRUE,
             it |-> [it EXCEPT !.index = CHOOSE i \in hits : \A j \in hits : i <= j]]

\* Iterator::search: from itsMemberItBegin to itsMemberItEnd, the first
\* member of that name becomes the position; throws when there is none
IteratorSearch(it, searchName) ==
    LET hits == {i \in 0..(Len(it.members) - 1) : it.members[i + 1].name = searchName}
    IN IF hits = {} THEN [ok |-> FALSE, it |-> it]
       ELSE [ok |-> TRUE,
             it |-> [it EXCEPT !.index = CHOOSE i \in hits : \A j \in hits : i <= j]]

\* a search that never looks the name up
search_NoLookup(st, nextName) == [ok |-> TRUE, st |-> st, name |-> NoName]

\* JSONInputArchive::search on the back of the iterator stack; the name is
\* reset unless Iterator::search throws
search(st, nextName) ==
    IF nextName # NoName /\ IteratorName(Last(st)) # nextName
    THEN LET r == IteratorSearch(Last(st), nextName) IN
         [ok |-> r.ok, st |-> SetTop(st, r.it), name |-> IF r.ok THEN NoName ELSE nextName]
    ELSE [ok |-> TRUE, st |-> st, name |-> NoName]

\* a loadValue that leaves the cursor on the value read
loadValue_NoAdvance(st, nextName) ==
    LET s == search(st, nextName)
        it == Last(s.st)
    IN IF ~s.ok THEN [err |-> "not_found", st |-> s.st, name |-> s.name, val |-> 0]
       ELSE IF it.index >= Len(it.members)
       THEN [err |-> "no_more", st |-> s.st, name |-> s.name, val |-> 0]
       ELSE IF it.members[it.index + 1].value.kind # "int"
       THEN [err |-> "type", st |-> s.st, name |-> s.name, val |-> 0]
       ELSE [err |-> "none", st |-> s.st,
             name |-> s.name, val |-> it.members[it.index + 1].value.int]

\* JSONInputArchive::loadValue(int&): search, Iterator::value, GetInt, ++
loadValue(st, nextName) ==
    LET s == search(st, nextName)
        it == Last(s.st)
    IN IF ~s.ok THEN [err |-> "not_found", st |-> s.st, name |-> s.name, val |-> 0]
       ELSE IF it.index >= Len(it.members)
       THEN [err |-> "no_more", st |-> s.st, name |-> s.name, val |-> 0]
       ELSE IF it.members[it.index + 1].value.kind # "int"
       THEN [err |-> "type", st |-> s.st, name |-> s.name, val |-> 0]
       ELSE [err |-> "none", st |-> SetTop(s.st, [it EXCEPT !.index = @ + 1]),
             name |-> s.name, val |-> it.members[it.index + 1].value.int]

\* JSONInputArchive(std::istream&) over a parsed document
InitTreeIn ==
    /\ InitIdleEngine
    /\ InitOtherFeatures({"JsonIn"})
    /\ ji_document \in TreeDocuments
    /\ ji_stack = <<Iterator(ji_document)>>
    /\ ji_nextName = NoName
    /\ ji_loaded = <<>>
    /\ phase = "in"
    /\ prog = <<>>
    /\ stream = <<>>
    /\ in_pos = 0
    /\ in_op = 0
    /\ in_err = "none"

\* ar(v) or ar(make_nvp(n, v)) for an int: setNextName, then loadValue
TreeLoadValue(n) ==
    /\ phase = "in" /\ Len(prog) < MaxOps
    /\ prog' = Append(prog, TreeOp("value", n))
    /\ LET r == loadValue(ji_stack, n) IN
       /\ ji_stack' = r.st
       /\ ji_nextName' = r.name
       /\ in_err' = r.err
       /\ phase' = IF r.err = "none" THEN "in" ELSE "failed"
       /\ ji_loaded' = IF r.err = "none" THEN Append(ji_loaded, r.val) ELSE ji_loaded
    /\ UNCHANGED <<engineVars, exceptJsonIn, ji_document, stream, in_pos, in_op>>

\* the prologue of a value of a class type, named or not: startNode
TreeInStartNode(n) ==
    /\ phase = "in" /\ Len(prog) < MaxOps
    /\ prog' = Append(prog, TreeOp("startNode", n))
    /\ LET s == search(ji_stack, n)
           it == Last(s.st)
           err == IF ~s.ok THEN "not_found"
                  ELSE IF it.index >= Len(it.members) THEN "no_more"
                  ELSE IF it.members[it.index + 1].value.kind # "object" THEN "type"
                  ELSE "none"
       IN /\ ji_stack' = IF err = "none"
                         THEN Append(s.st, Iterator(it.members[it.index + 1].value.members))
                         ELSE s.st
          /\ ji_nextName' = s.name
          /\ in_err' = err
          /\ phase' = IF err = "none" THEN "in" ELSE "failed"
    /\ UNCHANGED <<engineVars, exceptJsonIn, ji_document, ji_loaded, stream, in_pos, in_op>>

\* the epilogue of a value of a class type: finishNode
TreeInFinishNode ==
    /\ phase = "in" /\ Len(prog) < MaxOps /\ Len(ji_stack) > 1
    /\ prog' = Append(prog, TreeOp("finishNode", NoName))
    /\ LET st == Pop(ji_stack) IN
       ji_stack' = SetTop(st, [Last(st) EXCEPT !.index = @ + 1])
    /\ UNCHANGED <<engineVars, exceptJsonIn, ji_document, ji_nextName, ji_loaded,
                   phase, stream, in_pos, in_op, in_err>>

NextTreeIn ==
    \/ \E n \in {NoName} \cup FieldNames : TreeLoadValue(n)
    \/ \E n \in {NoName} \cup FieldNames : TreeInStartNode(n)
    \/ TreeInFinishNode

SpecTreeIn == InitTreeIn /\ [][NextTreeIn]_vars

\* ---------------------------------------------------------------------------
\* values of the test types through an archive (unittests/structs.hpp,
\* unittests/structs_minimal.hpp): one type per serialization strategy
\* ---------------------------------------------------------------------------

\* the load function declared next to a save function
LoadOf(f) ==
    [f EXCEPT !.name = IF f.name = "member_save" THEN "member_load"
                       ELSE IF f.name = "global_save" THEN "global_load"
                       ELSE IF f.name = "member_save_minimal" THEN "member_load_minimal"
                       ELSE "global_load_minimal"]

\* what a type of one strategy declares: a serialize function, or a save
\* function and its load function
Strategies == {{f} : f \in SerializeFunctions} \cup {{f, LoadOf(f)} : f \in SaveFunctions}

IsMinimal(f) == f.name \in {"member_save_minimal", "global_save_minimal",
                            "member_load_minimal", "global_load_minimal"}

\* how many minimal types stand between the type and the scalar saved:
\* MemberMinimal 0, MemberMinimalRecursive 1, MemberMinimalRecursiveNested 2
SurrogateDepths(caps) ==
    IF caps = {Unversioned("member_save_minimal"), Unversioned("member_load_minimal")}
    THEN {0, 1, 2} ELSE {0}

\* the i-th value of a run: StructBase{x, y}, or the x of a minimal type
StructValue(caps, i) ==
    IF \E f \in caps : IsMinimal(f) THEN [x |-> i, y |-> 0] ELSE [x |-> i, y |-> i + 10]

StructOp(t, caps, depth, v) ==
    [op |-> "struct", ptr |-> Null, type |-> t, caps |-> caps, depth |-> depth, value |-> v]

\* process_as of the value save_minimal returned: the scalar, or a minimal
\* type whose save_minimal is processed in turn
RECURSIVE SaveMinimal(_, _)
SaveMinimal(depth, x) ==
    IF depth = 0 THEN <<Token("int", x)>> ELSE SaveMinimal(depth - 1, x)

\* a serialize that saves y before x
SaveBody_Swapped(f, depth, v) ==
    IF IsMinimal(f) THEN SaveMinimal(depth, v.x)
    ELSE <<Token("int", v.y), Token("int", v.x)>>

\* the function processImpl calls on output: ar(x)(y), or save_minimal
SaveBody(f, depth, v) ==
    IF IsMinimal(f) THEN SaveMinimal(depth, v.x)
    ELSE <<Token("int", v.x), Token("int", v.y)>>

\* the value process_as fills in for load_minimal, through the load_minimal
\* of every minimal type in between
RECURSIVE LoadMinimal(_, _)
LoadMinimal(depth, scalar) ==
    IF depth = 0 THEN scalar ELSE LoadMinimal(depth - 1, scalar)

\* the function processImpl calls on input, on the scalars at the cursor
LoadBody(f, depth, scalars) ==
    IF IsMinimal(f) THEN [x |-> LoadMinimal(depth, scalars[1]), y |-> 0]
    ELSE [x |-> scalars[1], y |-> scalars[2]]

\* the scalars the function reads
ScalarsOf(f) == IF IsMinimal(f) THEN 1 ELSE 2

\* whether processing a value of the type touches the version table:
\* registerClassVersion for a versioned function, registerClassVersionUnused
\* for a type with a static member version
UsesVersion(t, f) == f.versioned \/ staticMember[t]

\* two archives and the types of the run: types of different t have
\* different hash codes, the types of one t share one; every type declares
\* version 33, all by macro or all as a static member
InitStructs ==
    /\ InitIdleEngine
    /\ InitOtherFeatures({"Version", "Struct"})
    /\ type_hash = [t \in VTypes |-> t]
    /\ classVersion = [t \in VTypes |-> 33]
    /\ \E b \in BOOLEAN : staticMember = [t \in VTypes |-> b]
    /\ versions_mapping \in RegisteredMappings
    /\ out_itsVersionedTypes = {}
    /\ in_itsVersionedTypes = EmptyMap
    /\ out_versionGiven = <<>>
    /\ in_versionGiven = <<>>
    /\ s_loaded = <<>>
    /\ phase = "out"
    /\ prog = <<>>
    /\ stream = <<>>
    /\ in_pos = 0
    /\ in_op = 0
    /\ in_err = "none"

\* oar(o) for o of a type of one strategy: the generic processImpl
SaveStruct(t, caps, depth) ==
    /\ phase = "out" /\ Len(prog) < MaxStructs
    /\ is_serializable("out", caps)
    /\ LET f == FirstInChain("out", caps)
           v == StructValue(caps, Len(prog) + 1)
           r == RegisterClassVersion(t)
       IN /\ prog' = Append(prog, StructOp(t, caps, depth, v))
          /\ IF UsesVersion(t, f)
             THEN /\ out_itsVersionedTypes' = r.set
                  /\ versions_mapping' = IF f.versioned THEN r.mapping ELSE versions_mapping
                  /\ stream' = (IF r.write THEN Append(stream, Token("version", r.version))
                                ELSE stream) \o SaveBody(f, depth, v)
             ELSE /\ stream' = stream \o SaveBody(f, depth, v)
                  /\ UNCHANGED <<out_itsVersionedTypes, versions_mapping>>
          /\ out_versionGiven' = IF f.versioned THEN Append(out_versionGiven, r.version)
                                 ELSE out_versionGiven
    /\ UNCHANGED <<engineVars, exceptVersion, phase, in_pos, in_op, in_err, type_hash,
                   classVersion, staticMember, in_itsVersionedTypes, in_versionGiven>>

\* iar(i) for the next value: the generic processImpl of the input archive;
\* a read past the end of the stream throws
LoadStruct ==
    /\ InRunning /\ in_op < Len(prog)
    /\ in_op' = in_op + 1
    /\ LET o == prog[in_op + 1]
           f == FirstInChain("in", o.caps)
           r == LoadClassVersion(o.type)
           versionRead == UsesVersion(o.type, f) /\ r.read
           at == in_pos + (IF versionRead THEN 1 ELSE 0)
           need == (at - in_pos) + ScalarsOf(f)
       IN IF ~is_serializable("in", o.caps) \/ in_pos + need > Len(stream)
          THEN /\ in_err' = "short_read"
               /\ UNCHANGED <<in_pos, in_itsVersionedTypes, in_versionGiven, s_loaded>>
          ELSE /\ in_itsVersionedTypes' = IF UsesVersion(o.type, f) THEN r.map
                                          ELSE in_itsVersionedTypes
               /\ in_versionGiven' = IF f.versioned THEN Append(in_versionGiven, r.version)
                                     ELSE in_versionGiven
               /\ in_pos' = in_pos + need
               /\ s_loaded' = Append(s_loaded,
                     LoadBody(f, o.depth, [k \in 1..ScalarsOf(f) |-> stream[at + k].v]))
               /\ UNCHANGED in_err
    /\ UNCHANGED <<engineVars, exceptVersionStruct, phase, prog, stream, type_hash, classVersion,
                   staticMember, versions_mapping, out_itsVersionedTypes, out_versionGiven>>

NextStructs ==
    \/ \E t \in VTypes, caps \in Strategies :
          \E depth \in SurrogateDepths(caps) : SaveStruct(t, caps, depth)
    \/ OpenVersionInput
    \/ LoadStruct

SpecStructs == InitStructs /\ [][NextStructs]_vars

\* ------------------------------------------- object lifetime in a session
\* The caller creates objects with make_shared, saves them and drops its
\* own shared_ptr; memory of an object nobody owns is handed out again.
Objects == 1..MaxObjects

\* the archive's own state as one record
OutputTables ==
    [itsBaseClassSet |-> out_itsBaseClassSet,
     itsSharedPointerMap |-> out_itsSharedPointerMap,
     itsSharedPointerStorage |-> out_itsSharedPointerStorage,
     itsCurrentPointerId |-> out_itsCurrentPointerId,
     itsPolymorphicTypeMap |-> out_itsPolymorphicTypeMap,
     itsCurrentPolymorphicTypeId |-> out_itsCurrentPolymorphicTypeId,
     itsVersionedTypes |-> out_itsVersionedTypes,
     itsDeferments |-> out_itsDeferments]

OutputBecomes(st) ==
    /\ out_itsBaseClassSet' = st.itsBaseClassSet
    /\ out_itsSharedPointerMap' = st.itsSharedPointerMap
    /\ out_itsSharedPointerStorage' = st.itsSharedPointerStorage
    /\ out_itsCurrentPointerId' = st.itsCurrentPointerId
    /\ out_itsPolymorphicTypeMap' = st.itsPolymorphicTypeMap
    /\ out_itsCurrentPolymorphicTypeId' = st.itsCurrentPolymorphicTypeId
    /\ out_itsVersionedTypes' = st.itsVersionedTypes
    /\ out_itsDeferments' = st.itsDeferments

\* OutputArchive::reset leaving the two id counters where they are
OutputArchiveReset_KeepCounters(st) ==
    [st EXCEPT !.itsBaseClassSet = {},
               !.itsSharedPointerMap = EmptyMap,
               !.itsSharedPointerStorage = <<>>,
               !.itsPolymorphicTypeMap = EmptyMap,
               !.itsVersionedTypes = {},
               !.itsDeferments = <<>>]

\* OutputArchive::reset
OutputArchiveReset(st) ==
    [st EXCEPT !.itsBaseClassSet = {},
               !.itsSharedPointerMap = EmptyMap,
               !.itsSharedPointerStorage = <<>>,
               !.itsCurrentPointerId = One,
               !.itsPolymorphicTypeMap = EmptyMap,
               !.itsCurrentPolymorphicTypeId = One,
               !.itsVersionedTypes = {},
               !.itsDeferments = <<>>]

\* an object is owned by the caller's shared_ptr or by a copy in the storage
Owned(held, storage, a) == a \in held \/ a \in Range(storage)

\* memory whose last owner went away is free again
Freed(heap, held, storage) ==
    [a \in DOMAIN heap |-> IF Owned(held, storage, a) THEN heap[a] ELSE 0]

InitAliveSession ==
    /\ InitIdleEngine
    /\ InitOtherFeatures({"Alive"})
    /\ InitAlive
    /\ phase = "out"
    /\ prog = <<>>
    /\ stream = <<>>
    /\ in_pos = 0
    /\ in_op = 0
    /\ in_err = "none"

\* a call on an archive, as the session's history keeps it
TableOp(o, x) == [op |-> o, ptr |-> x]

inputTables == <<in_itsBaseClassSet, in_itsSharedPointerMap, in_itsPolymorphicTypeMap,
                 in_itsVersionedTypes, in_itsDeferments, in_reserveMemoryBudget>>
outputTables == <<out_itsBaseClassSet, out_itsSharedPointerMap, out_itsSharedPointerStorage,
                  out_itsCurrentPointerId, out_itsPolymorphicTypeMap,
                  out_itsCurrentPolymorphicTypeId, out_itsVersionedTypes, out_itsDeferments>>
otherOutputTables == <<out_itsDeferments, out_itsBaseClassSet, out_itsPolymorphicTypeMap,
                       out_itsCurrentPolymorphicTypeId, out_itsVersionedTypes>>
pointerTables == <<out_itsSharedPointerMap, out_itsSharedPointerStorage,
                   out_itsCurrentPointerId>>

\* std::make_shared<T>(): a new object in free memory, owned by the caller
MakeShared(a) ==
    /\ al_objects < MaxObjects
    /\ al_heap[a] = 0
    /\ al_objects' = al_objects + 1
    /\ al_heap' = [al_heap EXCEPT ![a] = al_objects + 1]
    /\ al_held' = al_held \cup {a}
    /\ UNCHANGED <<al_ids, pointerTables, otherOutputTables, exceptOutputAlive>>

\* the caller's shared_ptr goes out of scope
ReleaseShared(a) ==
    /\ a \in al_held
    /\ al_held' = al_held \ {a}
    /\ al_heap' = Freed(al_heap, al_held', out_itsSharedPointerStorage)
    /\ UNCHANGED <<al_objects, al_ids, pointerTables, otherOutputTables, exceptOutputAlive>>

\* ar(ptr) for a shared_ptr the caller holds: memory.hpp asks the archive
\* for the pointer's id
SaveShared(a) ==
    /\ a \in al_held
    /\ Len(out_itsSharedPointerStorage) < MaxOps
    /\ LET r == RegisterSharedPointer(out_itsSharedPointerMap,
                    out_itsSharedPointerStorage, out_itsCurrentPointerId, a)
       IN /\ out_itsSharedPointerMap' = r.map
          /\ out_itsSharedPointerStorage' = r.storage
          /\ out_itsCurrentPointerId' = r.cur
          /\ al_ids' = MapPut(al_ids, al_heap[a], StripMsb(r.id))
    /\ UNCHANGED <<al_heap, al_held, al_objects, otherOutputTables, exceptOutputAlive>>

\* reset(): the session ends, the storage lets go of its copies
ResetOutput ==
    /\ Len(prog) < MaxOps
    /\ prog' = Append(prog, TableOp("resetOutput", 0))
    /\ OutputBecomes(OutputArchiveReset(OutputTables))
    /\ al_heap' = Freed(al_heap, al_held, <<>>)
    /\ al_ids' = EmptyMap
    /\ UNCHANGED <<al_held, al_objects, inputTables, exceptTables>>

NextAlive ==
    \/ \E a \in Addrs : MakeShared(a)
    \/ \E a \in Addrs : ReleaseShared(a)
    \/ \E a \in Addrs : SaveShared(a)
    \/ ResetOutput

SpecAlive == InitAliveSession /\ [][NextAlive]_vars

\* ------------------------------------------------ the reserve memory budget
\* Unsigned integers of the build's width, as little endian sequences of
\* 16 bit digits: a uint32_t has 2 digits, a 64 bit std::size_t has 4.
DigitBase == 256 * 256

\* the number n < 2^31 in w digits
Digits(n, w) ==
    [i \in 1..w |-> IF i = 1 THEN n % DigitBase ELSE IF i = 2 THEN n \div DigitBase ELSE 0]

\* integral conversion to a type of w digits: zero extension or truncation
ConvertTo(d, w) == [i \in 1..w |-> IF i <= Len(d) THEN d[i] ELSE 0]

RECURSIVE MulFrom(_, _, _, _)
MulFrom(d, k, i, carry) ==
    IF i > Len(d) THEN <<>>
    ELSE LET p == d[i] * k + carry
         IN <<p % DigitBase>> \o MulFrom(d, k, i + 1, p \div DigitBase)

\* d * k in the width of d: the carry out of the top digit is lost
Times(d, k) == MulFrom(d, k, 1, 0)

RECURSIVE LeqFrom(_, _, _)
LeqFrom(a, b, i) ==
    IF i = 0 THEN TRUE
    ELSE IF a[i] # b[i] THEN a[i] < b[i]
    ELSE LeqFrom(a, b, i - 1)

\* a <= b for two numbers of the same width
Leq(a, b) == LeqFrom(a, b, Len(a))

RECURSIVE SubFrom(_, _, _, _)
SubFrom(a, b, i, borrow) ==
    IF i > Len(a) THEN <<>>
    ELSE LET x == a[i] - b[i] - borrow
         IN <<x % DigitBase>> \o SubFrom(a, b, i + 1, IF x < 0 THEN 1 ELSE 0)

\* a - b in the width of a: wraps below zero
Minus(a, b) == SubFrom(a, b, 1, 0)

RECURSIVE AddFrom(_, _, _, _)
AddFrom(a, b, i, carry) ==
    IF i > Len(a) THEN <<>>
    ELSE LET x == a[i] + b[i] + carry
         IN <<x % DigitBase>> \o AddFrom(a, b, i + 1, x \div DigitBase)

Plus(a, b) == AddFrom(a, b, 1, 0)

RECURSIVE DivFrom(_, _, _, _)
DivFrom(d, k, i, rem) ==
    IF i = 0 THEN <<>>
    ELSE LET x == rem * DigitBase + d[i]
         IN DivFrom(d, k, i - 1, x % k) \o <<x \div k>>

\* d / k, rounded down
DividedBy(d, k) == DivFrom(d, k, Len(d), 0)

\* InputArchive::safe_to_reserve<T>(numElements): the elements granted and the
\* budget left; the arithmetic is that of std::size_t
safe_to_reserve(budget, numElements, sizeofT) ==
    LET n == ConvertTo(numElements, Len(budget))
        requestedBytes == Times(n, sizeofT)
        numSafeElements == IF Leq(requestedBytes, budget) THEN n
                           ELSE DividedBy(budget, sizeofT)
    IN [budget |-> Minus(budget, Times(numSafeElements, sizeofT)),
        granted |-> numSafeElements]

\* size tags a stream can carry (size_type is uint32_t)
ReserveCounts == {Digits(n, 2) : n \in {0, 1, 3, 9, msb2_32bit, msb2_32bit + 1, low_31bit}}

\* sizeof(T) of the element types
ReserveSizes == {1, 4, 8}

\* the input archives' constructors: BinaryInputArchive keeps the default of
\* 64 KB, PortableBinaryInputArchive sets eight times the size of the stream;
\* std::size_t has 32 or 64 bits
InitBudgets ==
    /\ InitIdleEngine
    /\ InitOtherFeatures({"Budget"})
    /\ size_t_digits \in {2, 4}
    /\ \E k \in {64 * 1024} \cup {8 * b : b \in SizeTypeBytes..MaxStreamBytes} :
          bg_initial = Digits(k, size_t_digits)
    /\ in_reserveMemoryBudget = bg_initial
    /\ bg_grants = <<>>
    /\ phase = "in"
    /\ prog = <<>>
    /\ stream = <<>>
    /\ in_pos = 0
    /\ in_op = 0
    /\ in_err = "none"

\* load of a std::list (or string, deque, forward_list, ...): the size tag
\* read from the stream is handed to safe_to_reserve
SafeToReserve(numElements, sizeofT) ==
    /\ Len(bg_grants) < MaxLoads
    /\ LET r == safe_to_reserve(in_reserveMemoryBudget, numElements, sizeofT)
       IN /\ in_reserveMemoryBudget' = r.budget
          /\ bg_grants' = Append(bg_grants, [requested |-> numElements,
                                             sizeofT |-> sizeofT,
                                             granted |-> r.granted])
    /\ UNCHANGED <<size_t_digits, bg_initial, engineVars, exceptBudget, phase, prog,
                   stream, in_pos, in_op, in_err>>

NextBudgets == \E n \in ReserveCounts, s \in ReserveSizes : SafeToReserve(n, s)

SpecBudgets == InitBudgets /\ [][NextBudgets]_vars

\* ------------------------------------------------------------ reset()
\* A session fills the tables of an output and of an input archive through
\* the archives' own registration functions; reset() ends the session.
InputTables ==
    [itsBaseClassSet |-> in_itsBaseClassSet,
     itsSharedPointerMap |-> in_itsSharedPointerMap,
     itsPolymorphicTypeMap |-> in_itsPolymorphicTypeMap,
     itsVersionedTypes |-> in_itsVersionedTypes,
     itsDeferments |-> in_itsDeferments,
     reserveMemoryBudget |-> in_reserveMemoryBudget]

InputBecomes(st) ==
    /\ in_itsBaseClassSet' = st.itsBaseClassSet
    /\ in_itsSharedPointerMap' = st.itsSharedPointerMap
    /\ in_itsPolymorphicTypeMap' = st.itsPolymorphicTypeMap
    /\ in_itsVersionedTypes' = st.itsVersionedTypes
    /\ in_itsDeferments' = st.itsDeferments
    /\ in_reserveMemoryBudget' = st.reserveMemoryBudget

\* InputArchive::reset leaving the deferred queue alone
InputArchiveReset_KeepDeferments(st) ==
    [st EXCEPT !.itsBaseClassSet = {},
               !.itsSharedPointerMap = EmptyMap,
               !.itsPolymorphicTypeMap = EmptyMap,
               !.itsVersionedTypes = EmptyMap,
               !.reserveMemoryBudget = Digits(64 * 1024, Len(st.reserveMemoryBudget))]

\* InputArchive::reset
InputArchiveReset(st) ==
    [st EXCEPT !.itsBaseClassSet = {},
               !.itsSharedPointerMap = EmptyMap,
               !.itsPolymorphicTypeMap = EmptyMap,
               !.itsVersionedTypes = EmptyMap,
               !.itsDeferments = <<>>,
               !.reserveMemoryBudget = Digits(64 * 1024, Len(st.reserveMemoryBudget))]

\* what a session hands to the registration functions: an address, a type
\* name, a type hash, a pointer or type id, a captured object
Items == 1..MaxAddrs

\* an output and an input archive as constructed; the input archive is a
\* BinaryInputArchive (64 KB budget) on a build with a 32 or 64 bit size_t
InitReset ==
    /\ InitIdleEngine
    /\ InitOtherFeatures({"Budget"})
    /\ size_t_digits \in {2, 4}
    /\ bg_initial = Digits(64 * 1024, size_t_digits)
    /\ in_reserveMemoryBudget = bg_initial
    /\ bg_grants = <<>>
    /\ phase = "out"
    /\ prog = <<>>
    /\ stream = <<>>
    /\ in_pos = 0
    /\ in_op = 0
    /\ in_err = "none"

\* one call on the output archive that leaves its tables as st
OutputCall(o, x, st) ==
    /\ Len(prog) < MaxOps
    /\ prog' = Append(prog, TableOp(o, x))
    /\ OutputBecomes(st)
    /\ UNCHANGED <<inputTables, aliveVars, exceptTables>>

\* one call on the input archive that leaves its tables as st
InputCall(o, x, st) ==
    /\ Len(prog) < MaxOps
    /\ prog' = Append(prog, TableOp(o, x))
    /\ InputBecomes(st)
    /\ UNCHANGED <<outputTables, aliveVars, exceptTables>>

\* OutputArchive::registerSharedPointer(ptr)
OutRegisterSharedPointer(a) ==
    LET r == RegisterSharedPointer(out_itsSharedPointerMap, out_itsSharedPointerStorage,
                                   out_itsCurrentPointerId, a)
    IN OutputCall("registerSharedPointer", a,
          [OutputTables EXCEPT !.itsSharedPointerMap = r.map,
                               !.itsSharedPointerStorage = r.storage,
                               !.itsCurrentPointerId = r.cur])

\* OutputArchive::registerPolymorphicType(name)
OutRegisterPolymorphicType(name) ==
    LET r == registerPolymorphicType(out_itsPolymorphicTypeMap,
                                     out_itsCurrentPolymorphicTypeId, name)
    IN OutputCall("registerPolymorphicType", name,
          [OutputTables EXCEPT !.itsPolymorphicTypeMap = r.map,
                               !.itsCurrentPolymorphicTypeId = r.cur])

\* OutputArchive::registerClassVersion: itsVersionedTypes.insert(hash)
OutRegisterClassVersion(hash) ==
    OutputCall("registerClassVersion", hash,
        [OutputTables EXCEPT !.itsVersionedTypes = @ \cup {hash}])

\* OutputArchive::processImpl(virtual_base_class): itsBaseClassSet.insert(id)
OutVisitBase(a) ==
    OutputCall("virtual_base_class", a,
        [OutputTables EXCEPT !.itsBaseClassSet = @ \cup {base_class_id("Base", a)}])

\* OutputArchive::processImpl(DeferredData): itsDeferments.emplace_back
OutDefer(a) ==
    OutputCall("defer", a, [OutputTables EXCEPT !.itsDeferments = Append(@, a)])

\* InputArchive::registerSharedPointer(id, ptr)
InRegisterSharedPointer(x) ==
    InputCall("registerSharedPointer", x,
        [InputTables EXCEPT !.itsSharedPointerMap =
                                RegisterLoadedPointer(@, OrMsb(Word(FALSE, x)), x)])

\* InputArchive::registerPolymorphicName(id, name)
InRegisterPolymorphicName(x) ==
    InputCall("registerPolymorphicName", x,
        [InputTables EXCEPT !.itsPolymorphicTypeMap =
                                registerPolymorphicName(@, OrMsb(Word(FALSE, x)), x)])

\* InputArchive::loadClassVersion: itsVersionedTypes.emplace_hint(hash, version)
InLoadClassVersion(hash) ==
    InputCall("loadClassVersion", hash,
        [InputTables EXCEPT !.itsVersionedTypes =
                                IF hash \in DOMAIN @ THEN @ ELSE MapPut(@, hash, 33)])

\* InputArchive::processImpl(virtual_base_class): itsBaseClassSet.insert(id)
InVisitBase(a) ==
    InputCall("virtual_base_class", a,
        [InputTables EXCEPT !.itsBaseClassSet = @ \cup {base_class_id("Base", a)}])

\* InputArchive::processImpl(DeferredData): itsDeferments.emplace_back
InDefer(a) ==
    InputCall("defer", a, [InputTables EXCEPT !.itsDeferments = Append(@, a)])

\* InputArchive::safe_to_reserve<uint8_t>(x)
InSafeToReserve(x) ==
    InputCall("safe_to_reserve", x,
        [InputTables EXCEPT !.reserveMemoryBudget =
                                safe_to_reserve(@, Digits(x, 2), 1).budget])

\* InputArchive::reset()
ResetInput ==
    InputCall("resetInput", 0, InputArchiveReset(InputTables))

NextReset ==
    \/ \E x \in Items : OutRegisterSharedPointer(x)
    \/ \E x \in Items : OutRegisterPolymorphicType(x)
    \/ \E x \in Items : OutRegisterClassVersion(x)
    \/ \E x \in Items : OutVisitBase(x)
    \/ \E x \in Items : OutDefer(x)
    \/ \E x \in Items : InRegisterSharedPointer(x)
    \/ \E x \in Items : InRegisterPolymorphicName(x)
    \/ \E x \in Items : InLoadClassVersion(x)
    \/ \E x \in Items : InVisitBase(x)
    \/ \E x \in Items : InDefer(x)
    \/ \E x \in Items : InSafeToReserve(x)
    \/ ResetOutput
    \/ ResetInput

SpecReset == InitReset /\ [][NextReset]_vars

\* ------------------------------------------------- the width of the ids
\* An output session that has already saved many distinct objects: they stay
\* alive in the storage and are not saved again, so their table entries are
\* left out and only itsCurrentPointerId tells of them: it is 1 (nothing
\* saved yet), 2^31 - 1 or 2^32 - 1. The polymorphic type ids count the
\* types registered in the program and start at 1.
LongSessions == {One, Word(FALSE, low_31bit), Word(TRUE, low_31bit)}

InitIds ==
    /\ next = [n \in Nodes |-> Null]
    /\ deferEdges = FALSE
    /\ stack = <<>>
    /\ out_itsSharedPointerMap = EmptyMap
    /\ out_itsSharedPointerStorage = <<>>
    /\ out_itsCurrentPointerId \in LongSessions
    /\ out_itsDeferments = <<>>
    /\ in_itsSharedPointerMap = EmptyMap
    /\ in_itsDeferments = <<>>
    /\ inst = <<>>
    /\ handles = <<>>
    /\ flushed = <<>>
    /\ InitExt
    /\ phase = "out"
    /\ prog = <<>>
    /\ stream = <<>>
    /\ in_pos = 0
    /\ in_op = 0
    /\ in_err = "none"

NextIds ==
    \/ \E x \in Items : OutRegisterSharedPointer(x)
    \/ \E x \in Items : OutRegisterPolymorphicType(x)
    \/ \E x \in Items : OutDefer(x)

SpecIds == InitIds /\ [][NextIds]_vars

\* --------------------------------------------- two archives, two threads
\* Each thread owns an output archive and saves values of versioned types
\* (test_versioning_threading runs test_versioning on many threads). The
\* archives share detail::Versions::mapping. The types declare their version
\* with VIDE_CLASS_VERSION (33) or not at all (0); their hashes differ.
Threads == {1, 2}

InitThreads ==
    /\ InitIdleEngine
    /\ InitOtherFeatures({"Version", "Thread"})
    /\ type_hash = [t \in VTypes |-> t]
    /\ classVersion \in [VTypes -> {0, 33}]
    /\ staticMember = [t \in VTypes |-> FALSE]
    /\ versions_mapping \in RegisteredMappings
    /\ out_itsVersionedTypes = {}
    /\ in_itsVersionedTypes = EmptyMap
    /\ out_versionGiven = <<>>
    /\ in_versionGiven = <<>>
    /\ th_safe \in BOOLEAN
    /\ th_pc = [i \in Threads |-> "idle"]
    /\ th_type = [i \in Threads |-> 1]
    /\ th_itsVersionedTypes = [i \in Threads |-> {}]
    /\ th_inserted = [i \in Threads |-> FALSE]
    /\ th_given = [i \in Threads |-> <<>>]
    /\ th_mutex = 0
    /\ th_raced = [i \in Threads |-> FALSE]
    /\ phase = "out"
    /\ prog = <<>>
    /\ stream = <<>>
    /\ in_pos = 0
    /\ in_op = 0
    /\ in_err = "none"

threadRest == <<engineVars, exceptThread, phase, prog, stream, in_pos, in_op, in_err>>

\* StaticObject<Versions>::lock() of a build without mutexes in every build
ThLock_NoMutex(i) ==
    /\ th_pc[i] = "lock"
    /\ th_pc' = [th_pc EXCEPT ![i] = "find"]
    /\ UNCHANGED <<th_mutex, th_safe, th_type, th_itsVersionedTypes, th_inserted, th_given,
                   th_raced, threadRest>>

\* thread i: oar(o) of a type T; registerClassVersion<T> starts with
\* itsVersionedTypes.insert(hash) on the thread's own archive
ThInsert(i, t) ==
    /\ phase = "out" /\ th_pc[i] = "idle" /\ Len(th_given[i]) < MaxSaved
    /\ th_type' = [th_type EXCEPT ![i] = t]
    /\ th_inserted' = [th_inserted EXCEPT ![i] = type_hash[t] \notin th_itsVersionedTypes[i]]
    /\ th_itsVersionedTypes' = [th_itsVersionedTypes EXCEPT ![i] = @ \cup {type_hash[t]}]
    /\ th_pc' = [th_pc EXCEPT ![i] = "lock"]
    /\ UNCHANGED <<th_safe, th_given, th_mutex, th_raced, threadRest>>

\* StaticObject<Versions>::lock(): takes the mutex where the build has one
ThLock(i) ==
    /\ th_pc[i] = "lock"
    /\ IF th_safe THEN th_mutex = 0 /\ th_mutex' = i ELSE UNCHANGED th_mutex
    /\ th_pc' = [th_pc EXCEPT ![i] = "find"]
    /\ UNCHANGED <<th_safe, th_type, th_itsVersionedTypes, th_inserted, th_given,
                   th_raced, threadRest>>

\* the threads inside mapping.emplace
Emplacing == {j \in Threads : th_pc[j] = "emplace"}

\* Versions::find: mapping.emplace begins. Two emplace calls on one
\* unordered_map that overlap while one of them inserts are a data race.
ThFindEnter(i) ==
    /\ th_pc[i] = "find"
    /\ th_pc' = [th_pc EXCEPT ![i] = "emplace"]
    /\ LET inserts(j) == type_hash[th_type[j]] \notin DOMAIN versions_mapping
           race == Emplacing # {} /\ \E j \in Emplacing \cup {i} : inserts(j)
       IN th_raced' = [j \in Threads |->
                          th_raced[j] \/ (race /\ j \in Emplacing \cup {i})]
    /\ UNCHANGED <<th_safe, th_type, th_itsVersionedTypes, th_inserted, th_given,
                   th_mutex, threadRest>>

\* Versions::find returns and the lock guard goes out of scope; after a data
\* race the behaviour is undefined: the call returns any version or the
\* process dies
ThFindLeave(i, garbage, dies) ==
    /\ th_pc[i] = "emplace"
    /\ LET t == th_type[i]
           r == VersionsFind(versions_mapping, type_hash[t], classVersion[t])
           version == IF th_raced[i] THEN garbage ELSE r.version
       IN /\ ~th_raced[i] => garbage = r.version /\ ~dies
          /\ versions_mapping' = r.mapping
          /\ th_given' = [th_given EXCEPT ![i] = Append(@, <<t, version>>)]
          /\ phase' = IF dies THEN "crashed" ELSE phase
    /\ th_mutex' = IF th_mutex = i THEN 0 ELSE th_mutex
    /\ th_raced' = [th_raced EXCEPT ![i] = FALSE]
    /\ th_pc' = [th_pc EXCEPT ![i] = "idle"]
    /\ UNCHANGED <<th_safe, th_type, th_itsVersionedTypes, th_inserted, engineVars,
                   type_hash, classVersion, staticMember, out_itsVersionedTypes,
                   in_itsVersionedTypes, out_versionGiven, in_versionGiven,
                   exceptVersionThread, prog, stream, in_pos, in_op, in_err>>

NextThreads ==
    \/ \E i \in Threads, t \in VTypes : ThInsert(i, t)
    \/ \E i \in Threads : ThLock(i)
    \/ \E i \in Threads : ThFindEnter(i)
    \/ \E i \in Threads, g \in DeclaredVersions, d \in BOOLEAN : ThFindLeave(i, g, d)

SpecThreads == InitThreads /\ [][NextThreads]_vars

\* ------------------------------------------------ binary streams, by byte
\* One machine saves bools, ints, vectors of int and collections of bool with
\* a binary or a portable binary archive (default options) and loads them
\* back with the same types. A value is kept as its kind and its elements
\* (a bool as 0 or 1).
Item(k, v) == [kind |-> k, v |-> v]

BinItems == {Item("bool", <<1>>), Item("bool", <<0>>), Item("int", <<1234>>),
             Item("vector", <<1, 2, 3>>), Item("vector", <<>>),
             Item("array", <<0, 0>>), Item("bools", <<0, 1>>)}

\* the four bytes of a 32 bit value in the machine's memory, and back
Int32Bytes(n, little) ==
    LET b == <<n % 256, (n \div 256) % 256, (n \div 65536) % 256, n \div 16777216>>
    IN IF little THEN b ELSE <<b[4], b[3], b[2], b[1]>>

Int32Value(b, little) ==
    IF little THEN b[1] + 256 * b[2] + 65536 * b[3] + 16777216 * b[4]
    ELSE 16777216 * b[1] + 65536 * b[2] + 256 * b[3] + b[4]

RECURSIVE Int32Block(_, _)
Int32Block(v, little) ==
    IF v = <<>> THEN <<>> ELSE Int32Bytes(Head(v), little) \o Int32Block(Tail(v), little)

\* what the save functions hand to saveBinary for one value: an arithmetic
\* value is its bytes; a vector of int is its size tag and one block of
\* binary data; a std::array of bool is its elements; a vector or deque of
\* bool is its size tag and its elements
SavedBytes(it, little) ==
    CASE it.kind = "bool" -> it.v
      [] it.kind = "int" -> Int32Bytes(it.v[1], little)
      [] it.kind = "vector" -> Int32Bytes(Len(it.v), little) \o Int32Block(it.v, little)
      [] it.kind = "array" -> it.v
      [] it.kind = "bools" -> Int32Bytes(Len(it.v), little) \o it.v

\* the offsets, within the bytes of a value, of its bools
BoolOffsets(it) ==
    CASE it.kind = "bool" -> {0}
      [] it.kind = "array" -> 0..(Len(it.v) - 1)
      [] it.kind = "bools" -> SizeTypeBytes..(SizeTypeBytes + Len(it.v) - 1)
      [] OTHER -> {}

RECURSIVE StreamOffsets(_, _)
\* the offsets in the stream of the bools of the values p, written from base on
StreamOffsets(p, base) ==
    IF p = <<>> THEN {}
    ELSE {base + o : o \in BoolOffsets(Head(p))}
         \cup StreamOffsets(Tail(p), base + Len(SavedBytes(Head(p), TRUE)))

\* a loadBinary that leaves the read position of the stream where it was
ReadBytes_NoAdvance(bytes, pos, size) ==
    [ok |-> pos + size <= Len(bytes),
     data |-> IF pos + size <= Len(bytes) THEN SubSeq(bytes, pos + 1, pos + size) ELSE <<>>,
     pos |-> pos]

\* loadBinary(data, size) at pos: ok is FALSE where it throws
ReadBytes(bytes, pos, size) ==
    [ok |-> pos + size <= Len(bytes),
     data |-> IF pos + size <= Len(bytes) THEN SubSeq(bytes, pos + 1, pos + size) ELSE <<>>,
     pos |-> IF pos + size <= Len(bytes) THEN pos + size ELSE Len(bytes)]

RECURSIVE Int32Values(_, _)
Int32Values(b, little) ==
    IF Len(b) < 4 THEN <<>>
    ELSE <<Int32Value(SubSeq(b, 1, 4), little)>> \o Int32Values(SubSeq(b, 5, Len(b)), little)

\* the object representation of a bool after loadBinary wrote byte b into it:
\* a byte other than 0 and 1 is no value of bool, what the program then sees
\* of it (ub) is undefined
BoolObject(b, ub) == IF b \in {0, 1} THEN b ELSE ub

\* the load functions for a value of the kind and (for a std::array) the
\* length of it: the value, the new position, ok FALSE where loadBinary throws
LoadedItem(it, bytes, pos, little, ub) ==
    LET tag == ReadBytes(bytes, pos, SizeTypeBytes)
        size == IF tag.ok THEN Int32Value(tag.data, little) ELSE 0
        fail(p) == [ok |-> FALSE, pos |-> p, item |-> Item(it.kind, <<>>)]
        loadBools(r) == IF r.ok
                        THEN [ok |-> TRUE, pos |-> r.pos,
                              item |-> Item(it.kind, [i \in DOMAIN r.data |->
                                                         BoolObject(r.data[i], ub)])]
                        ELSE fail(r.pos)
    IN CASE it.kind = "bool" -> loadBools(ReadBytes(bytes, pos, 1))
         [] it.kind = "array" -> loadBools(ReadBytes(bytes, pos, Len(it.v)))
         [] it.kind = "int" ->
              LET r == ReadBytes(bytes, pos, 4)
              IN IF r.ok THEN [ok |-> TRUE, pos |-> r.pos,
                               item |-> Item("int", <<Int32Value(r.data, little)>>)]
                 ELSE fail(r.pos)
         [] it.kind = "vector" ->
              IF ~tag.ok THEN fail(tag.pos)
              ELSE LET r == ReadBytes(bytes, tag.pos, 4 * size)
                   IN IF r.ok THEN [ok |-> TRUE, pos |-> r.pos,
                                    item |-> Item("vector", Int32Values(r.data, little))]
                      ELSE fail(r.pos)
         [] it.kind = "bools" ->
              IF ~tag.ok THEN fail(tag.pos) ELSE loadBools(ReadBytes(bytes, tag.pos, size))

\* an output archive over an empty stream: the portable one has written the
\* endianness byte
InitBinary ==
    /\ InitIdleEngine
    /\ InitOtherFeatures({"Bin"})
    /\ bn_portable \in BOOLEAN
    /\ bn_little \in BOOLEAN
    /\ bn_injected = 0
    /\ bn_loaded = <<>>
    /\ phase = "out"
    /\ prog = <<>>
    /\ stream = IF bn_portable THEN <<is_little_endian(bn_little)>> ELSE <<>>
    /\ in_pos = 0
    /\ in_op = 0
    /\ in_err = "none"

binRest == <<engineVars, exceptBin, bn_portable, bn_little>>

\* the bytes of the stream that hold a bool
BoolPositions == StreamOffsets(prog, IF bn_portable THEN 1 ELSE 0)

\* oar(x)
BinSave(it) ==
    /\ phase = "out" /\ Len(prog) < MaxOps
    /\ prog' = Append(prog, it)
    /\ stream' = stream \o SavedBytes(it, bn_little)
    /\ UNCHANGED <<binRest, bn_injected, bn_loaded, phase, in_pos, in_op, in_err>>

\* the stream goes to an input archive as it is; the portable one reads the
\* endianness byte
BinOpenInput ==
    /\ phase = "out" /\ prog # <<>>
    /\ phase' = "in"
    /\ in_pos' = IF bn_portable THEN 1 ELSE 0
    /\ UNCHANGED <<binRest, bn_injected, bn_loaded, prog, stream, in_op, in_err>>

\* data[offset] = 2 at the byte of a bool, then the input archive is opened
BinOpenInjected(offset) ==
    /\ phase = "out" /\ offset \in BoolPositions
    /\ stream' = [stream EXCEPT ![offset + 1] = 2]
    /\ bn_injected' = offset + 1
    /\ phase' = "in"
    /\ in_pos' = IF bn_portable THEN 1 ELSE 0
    /\ UNCHANGED <<binRest, bn_loaded, prog, in_op, in_err>>

\* iar(x) for the next value, of the type that was saved
BinLoad(ub) ==
    /\ phase = "in" /\ in_err = "none" /\ in_op < Len(prog)
    /\ LET it == prog[in_op + 1]
           r == LoadedItem(it, stream, in_pos, bn_little, ub)
           invalid == \E k \in (in_pos + 1)..r.pos : stream[k] = 2 /\ k = bn_injected
       IN /\ ~invalid => ub = 0
          /\ in_pos' = r.pos
          /\ in_op' = in_op + 1
          /\ in_err' = IF r.ok THEN "none" ELSE "Failed to read"
          /\ bn_loaded' = IF r.ok THEN Append(bn_loaded, r.item) ELSE bn_loaded
    /\ UNCHANGED <<binRest, bn_injected, prog, stream, phase>>

NextBinary ==
    \/ \E it \in BinItems : BinSave(it)
    \/ BinOpenInput
    \/ \E o \in 0..(4 * MaxStreamBytes) : BinOpenInjected(o)
    \/ \E ub \in {0, 1, 2} : BinLoad(ub)

SpecBinary == InitBinary /\ [][NextBinary]_vars

\* =============================================================== claims
IdTokenAt(p) == stream[p].kind = "id"
FlaggedAt(p) == IdTokenAt(p) /\ HasMsb(stream[p].v)
ValueTokensOf(n) == {p \in 1..Len(stream) : stream[p] = Token("value", NodeValue(n))}

\* the save wrapper is about to register the pointer of the innermost call
AtSavePtr ==
    /\ phase = "out" /\ stack # <<>>
    /\ Last(stack).fn = "save_ptr" /\ Last(stack).pc = "start"

\* C1: on an output archive registerSharedPointer returns 0 for a null
\* pointer, a newly allocated id with the high bit set for an address not
\* yet registered in the session, and the id already recorded for the
\* address, high bit clear, for a registered address.  The returned id is
\* the word the save wrapper writes to the stream.
C1_RegisterSharedPointerResult ==
    [][AtSavePtr =>
        LET addr == Last(stack).obj
            id == Last(stream').v
        IN /\ Len(stream') = Len(stream) + 1
           /\ (addr = Null) => (id = Zero)
           /\ (addr # Null /\ addr \notin DOMAIN out_itsSharedPointerMap) =>
                 /\ HasMsb(id)
                 /\ StripMsb(id) # Zero
                 /\ StripMsb(id) \notin Range(out_itsSharedPointerMap)
                 /\ out_itsSharedPointerMap'[addr] = StripMsb(id)
           /\ (addr # Null /\ addr \in DOMAIN out_itsSharedPointerMap) =>
                 /\ id = out_itsSharedPointerMap[addr]
                 /\ ~HasMsb(id)]_vars

\* a session that saved a null pointer, a new object and the same object again
C1_Witness ==
    /\ phase = "out"
    /\ \E p, q, r \in 1..Len(stream) :
          /\ p < q
          /\ FlaggedAt(p)
          /\ IdTokenAt(q) /\ stream[q].v = StripMsb(stream[p].v)
          /\ IdTokenAt(r) /\ stream[r].v = Zero

\* C2: within one output session the payload of each distinct non-null
\* object is written exactly once, directly after the flagged id of its first
\* save; every later save of a pointer to it writes the unflagged id only.
C2_PayloadOncePerObject ==
    /\ \A p \in 1..Len(stream) :
          /\ FlaggedAt(p) =>
                \E n \in DOMAIN out_itsSharedPointerMap :
                   /\ out_itsSharedPointerMap[n] = StripMsb(stream[p].v)
                   /\ p < Len(stream) => stream[p + 1] = Token("value", NodeValue(n))
                   /\ \A q \in 1..Len(stream) :
                         (IdTokenAt(q) /\ StripMsb(stream[q].v) = StripMsb(stream[p].v))
                            => (q >= p /\ (q > p => ~FlaggedAt(q)))
          /\ (stream[p].kind = "value") => (p > 1 /\ FlaggedAt(p - 1))
    /\ \A n \in Nodes : Cardinality(ValueTokensOf(n)) <= 1
    /\ (phase = "out" /\ stack = <<>>) =>
          \A n \in Nodes :
             (n \in DOMAIN out_itsSharedPointerMap) <=> (Cardinality(ValueTokensOf(n)) = 1)

\* an object saved three times by the caller: one payload, two bare ids
C2_Witness ==
    /\ phase = "out" /\ stack = <<>>
    /\ \E n \in Nodes :
          /\ prog = <<SaveOp(n), SaveOp(n), SaveOp(n)>>
          /\ Cardinality(ValueTokensOf(n)) = 1
          /\ Cardinality({p \in 1..Len(stream) :
                 stream[p] = Token("id", out_itsSharedPointerMap[n])}) >= 2

\* C3: output pointer ids are assigned in strictly increasing order starting
\* at 1, and a registered address keeps its one id for the rest of the session.
C3_IdsMonotoneAndStable ==
    [][/\ \A a \in DOMAIN out_itsSharedPointerMap :
             /\ a \in DOMAIN out_itsSharedPointerMap'
             /\ out_itsSharedPointerMap'[a] = out_itsSharedPointerMap[a]
       /\ \A a \in DOMAIN out_itsSharedPointerMap' \ DOMAIN out_itsSharedPointerMap :
             LET id == out_itsSharedPointerMap'[a] IN
             /\ ~HasMsb(id)
             /\ (DOMAIN out_itsSharedPointerMap = {}) => (id = One)
             /\ \A b \in DOMAIN out_itsSharedPointerMap :
                   id.low > out_itsSharedPointerMap[b].low]_vars

\* three objects registered one after the other
C3_Witness ==
    /\ phase = "out"
    /\ Cardinality(DOMAIN out_itsSharedPointerMap) = 3
    /\ Range(out_itsSharedPointerMap) = {One, Inc(One), Inc(Inc(One))}

\* caller calls whose load has returned
LoadedOps ==
    {k \in 1..Len(prog) :
        /\ prog[k].op = "save"
        /\ k <= in_op
        /\ (k = in_op) => (stack = <<>>)}

\* C4: decoding a stream in which two shared pointers referred to the same
\* object yields two handles that designate the same instance: the caller's
\* pointers to one object designate one decoded instance holding that
\* object's value, pointers to different objects designate different
\* instances, and a directly processed pointer member that referred to an
\* object the caller also saved designates that object's instance.
C4_SharedIdentityPreserved ==
    (phase = "in") =>
        /\ in_err = "none"
        /\ \A j \in LoadedOps :
              /\ (prog[j].ptr = Null) <=> (handles[j] = Null)
              /\ (prog[j].ptr # Null) =>
                    /\ handles[j] \in 1..Len(inst)
                    /\ inst[handles[j]].value = NodeValue(prog[j].ptr)
              /\ \A k \in LoadedOps :
                    /\ (prog[j].ptr = prog[k].ptr) <=> (handles[j] = handles[k])
                    /\ (~deferEdges /\ prog[j].ptr # Null
                          /\ next[prog[j].ptr] = prog[k].ptr)
                        => (inst[handles[j]].ptr = handles[k])

\* the same object loaded twice, with another object in between
C4_Witness ==
    /\ phase = "in" /\ stack = <<>> /\ in_op = 3
    /\ prog[1].ptr # Null
    /\ prog[2].ptr \notin {Null, prog[1].ptr}
    /\ prog[3] = prog[1]
    /\ handles[1] = handles[3]
    /\ handles[1] # Null
    /\ handles[2] \notin {Null, handles[1]}

\* the load wrapper is about to read the id of the innermost call
AtLoadPtr ==
    /\ InRunning /\ stack # <<>>
    /\ Last(stack).fn = "load_ptr" /\ Last(stack).pc = "start"

\* C5: on input id 0 yields a null pointer, and an unflagged non-zero id that
\* was never registered in the session raises an error instead of yielding a
\* pointer.
C5_NullAndUnknownId ==
    [][(AtLoadPtr /\ in_pos < Len(stream)) =>
        LET id == stream[in_pos + 1].v
            sl == Last(stack).slot
        IN /\ (id = Zero) =>
                 /\ in_err' = "none"
                 /\ IF sl.top THEN handles'[sl.i] = Null
                              ELSE inst'[sl.i].ptr = Null
           /\ (~HasMsb(id) /\ id # Zero /\ id \notin DOMAIN in_itsSharedPointerMap) =>
                 /\ in_err' = "unknown_id"
                 /\ stack' = <<>>
                 /\ handles' = handles
                 /\ inst' = inst]_vars

\* a stream whose first pointer is null and in which a later load met an
\* unflagged id that no earlier load had registered
C5_Witness ==
    /\ phase = "in" /\ in_err = "unknown_id"
    /\ in_op >= 2
    /\ stream[1].v = Zero
    /\ handles[1] = Null
    /\ in_itsSharedPointerMap # EmptyMap

C6_Done ==
    /\ phase = "in" /\ stack = <<>> /\ in_op = Len(prog) /\ in_err = "none"

C6_Graph ==
    \A k \in 1..Len(prog) :
        (prog[k].op = "save" /\ prog[k].ptr # Null) =>
            /\ handles[k] \in 1..Len(inst)
            /\ inst[handles[k]].ptr = handles[k]
            /\ inst[handles[k]].value = NodeValue(prog[k].ptr)
            /\ Cardinality(ValueTokensOf(prog[k].ptr)) = 1

\* C6: encoding and then decoding a shared object that holds a weak reference
\* to itself terminates, the object's payload is encoded once, and the decoded
\* object's weak reference designates the decoded object itself.
C6_SelfReferenceRoundTrip ==
    /\ <>[]C6_Done
    /\ [](C6_Done => C6_Graph)

\* the unit test's session: one self-referencing object saved and loaded
C6_Witness ==
    /\ C6_Done
    /\ Len(prog) = 1
    /\ prog[1].ptr # Null
    /\ inst[handles[1]].ptr = handles[1]
    /\ Len(stream) = 3

\* C7: with the pointer members deferred and flushed after the nodes the
\* recursion depth of every process call and of the flush is bounded by a
\* constant that does not depend on the length of the cycle or chain: at most
\* the flush, one pointer wrapper and one node are active at a time.
C7_DeferredDepthBounded ==
    deferEdges => (Len(stack) <= 3)

\* two nodes that point at each other, saved, flushed and decoded
C7_Witness ==
    /\ deferEdges
    /\ phase = "in" /\ stack = <<>> /\ in_err = "none"
    /\ prog = <<SaveOp(1), SaveOp(2), FlushOp>> /\ in_op = 3
    /\ next[1] = 2 /\ next[2] = 1
    /\ handles[1] # handles[2]
    /\ inst[handles[1]].ptr = handles[2]
    /\ inst[handles[2]].ptr = handles[1]

SessionQueue == IF phase = "in" THEN in_itsDeferments ELSE out_itsDeferments

\* C8: serializeDeferments calls the queued closures in the order in which
\* they were enqueued: the closures called so far are the first ones of the
\* queue, in queue order, and the loop stands right behind them.
C8_FlushInEnqueueOrder ==
    (phase \in {"out", "in"}) =>
        /\ Len(flushed) <= Len(SessionQueue)
        /\ \A i \in 1..Len(flushed) : flushed[i] = SessionQueue[i]
        /\ \A d \in 1..Len(stack) :
              (stack[d].fn = "serializeDeferments") =>
                 (Len(flushed) = stack[d].it - 1 /\ Len(flushed) <= stack[d].end)

\* a flush that ran two different closures to the end
C8_Witness ==
    /\ phase = "out" /\ stack = <<>>
    /\ Len(flushed) = 2
    /\ flushed[1] # flushed[2]
    /\ Len(out_itsDeferments) = 2

\* C9 as stated: when serializeDeferments has returned the deferred queue is
\* empty.
C9_QueueEmptyAfterFlush ==
    /\ (phase = "out" /\ stack = <<>> /\ prog # <<>> /\ Last(prog) = FlushOp)
          => (out_itsDeferments = <<>>)
    /\ (InRunning /\ stack = <<>> /\ in_op >= 1 /\ prog[in_op] = FlushOp)
          => (in_itsDeferments = <<>>)

NoFlushCalled == \A k \in 1..Len(prog) : prog[k].op # "flush"

\* C10: processing a value wrapped by defer writes or reads nothing for it at
\* that point: a pointer member is only processed below a running
\* serializeDeferments, and while the caller has not called it the stream
\* holds one id per caller save and nothing for the members, which stay
\* queued on output and unassigned on input.
C10_DeferredOnlyOnFlush ==
    deferEdges =>
        /\ (stack # <<>> /\ Last(stack).fn \in {"save_ptr", "load_ptr"}
              /\ Len(stack) > 1) => Flushing(stack)
        /\ NoFlushCalled =>
              /\ Cardinality({p \in 1..Len(stream) : IdTokenAt(p)}) <= Len(prog)
              /\ Len(out_itsDeferments) =
                    Cardinality({p \in 1..Len(stream) : stream[p].kind = "value"})
              /\ in_pos <= Len(stream)
              /\ Len(in_itsDeferments) <= Len(inst)
              /\ (stack = <<>>) => (Len(in_itsDeferments) = Len(inst))
              /\ \A i \in 1..Len(inst) : inst[i].ptr = Null

\* a session never flushed: the saved object's non-null pointer member is
\* still queued on both sides and the decoded object's member is null
C10_Witness ==
    /\ deferEdges /\ NoFlushCalled
    /\ phase = "in" /\ stack = <<>> /\ in_err = "none" /\ in_op = Len(prog)
    /\ Len(prog) >= 1
    /\ prog[1].ptr # Null
    /\ next[prog[1].ptr] # Null
    /\ out_itsDeferments # <<>>
    /\ in_itsDeferments # <<>>
    /\ inst[handles[1]].ptr = Null

\* ------------------------------------------------------------------ C11
\* the views of kind k processed before position p of the caller's calls
ViewedBefore(pg, k, p, t, a) ==
    \E j \in 1..(p - 1) : pg[j] = ViewOp(k, t, a)
AnyViewBefore(pg, p, t, a) ==
    \E j \in 1..(p - 1) : pg[j].type = t /\ pg[j].ptr = a

\* C11 as stated: a base-class view (of either wrapper) whose (base type,
\* object address) pair was viewed earlier in the session writes nothing on
\* output and reads nothing on input.
C11_SecondViewProcessesNothing ==
    [][/\ (phase = "out" /\ Len(prog') = Len(prog) + 1
           /\ AnyViewBefore(prog', Len(prog'), Last(prog').type, Last(prog').ptr))
          => stream' = stream
       /\ (phase = "in" /\ in_op' = in_op + 1
           /\ AnyViewBefore(prog, in_op', prog[in_op'].type, prog[in_op'].ptr))
          => in_pos' = in_pos]_vars

\* C11 amended: a virtual_base_class view writes (reads) the sub-object iff
\* no earlier virtual_base_class view of the session had the same (base type,
\* object address) pair, so a second one writes or reads nothing; a
\* base_class view writes (reads) the sub-object every time.
C11_VirtualViewOncePerPair ==
    [][/\ (phase = "out" /\ Len(prog') = Len(prog) + 1)
          => LET v == Last(prog') IN
             IF v.op = "virtual_base_class"
                /\ ViewedBefore(prog', "virtual_base_class", Len(prog'), v.type, v.ptr)
             THEN stream' = stream
             ELSE stream' = Append(stream, Token("base", BaseValue(v.type, v.ptr)))
       /\ (phase = "in" /\ in_op' = in_op + 1)
          => LET v == prog[in_op'] IN
             IF v.op = "virtual_base_class"
                /\ ViewedBefore(prog, "virtual_base_class", in_op', v.type, v.ptr)
             THEN in_pos' = in_pos /\ in_baseFields' = in_baseFields
             ELSE /\ in_pos' = in_pos + 1
                  /\ in_baseFields'[base_class_id(v.type, v.ptr)]
                         = BaseValue(v.type, v.ptr)]_vars

\* a diamond: the Base sub-object at one address viewed twice through
\* virtual_base_class, saved once and loaded once
C11_Witness ==
    /\ phase = "in" /\ in_op = Len(prog) /\ Len(prog) = 3
    /\ prog[1] = ViewOp("virtual_base_class", "Base", 1)
    /\ prog[2] = ViewOp("virtual_base_class", "Left", 1)
    /\ prog[3] = ViewOp("virtual_base_class", "Base", 1)
    /\ Len(stream) = 2 /\ in_pos = 2
    /\ in_err = "none"

\* ------------------------------------------------------------ C12, C13
\* the step processes a value on the output archive and writes a version
\* record
WritesVersion == stream' = stream \o <<Token("version", Last(out_versionGiven')),
                                     Token("x", Last(prog'))>>

\* C12: in an output session the version record of a type is written exactly
\* once, at the first processing of a value of that type: a step that
\* processes a value of type t writes a version record iff no value of t was
\* processed before.
C12_VersionWrittenOncePerType ==
    [][(phase = "out" /\ Len(prog') = Len(prog) + 1)
          => (WritesVersion <=> Last(prog') \notin Range(prog))]_vars

\* C13: the version handed to a type's load routine is the version written
\* for that type, which on output is the version the user declared for the
\* type, or 0 when none was declared; for the first and every later value.
C13_LoadGetsDeclaredVersion ==
    /\ \A k \in 1..Len(out_versionGiven) :
          out_versionGiven[k] = classVersion[prog[k]]
    /\ \A k \in 1..Len(in_versionGiven) :
          in_versionGiven[k] = classVersion[prog[k]]

\* ------------------------------------------------------------------ C14
DispatchErrors == {"error_none", "error_many", "error_ambiguous"}

\* C14: a type is dispatched only if exactly one serialization strategy
\* applies to it; a type to which zero or more than one strategy apply is
\* rejected with an error and is never dispatched.
C14_ExactlyOneStrategyOrError ==
    d_outcome # "pending" =>
        /\ d_called # "none" => count_serializers(d_dir, d_caps) = 1
        /\ count_serializers(d_dir, d_caps) # 1 =>
              d_outcome \in DispatchErrors /\ d_called = "none"

\* ------------------------------------------------------------------ C15
\* C15: every process(value) call performs prologue(value), then the
\* dispatch of value, then epilogue(value), in that order.
C15_PrologueDispatchEpilogue ==
    \A c \in p_done : c = <<"prologue", "dispatch", "epilogue">>

\* the registrations before the i-th one that name the same type
EarlierSame(i) == {j \in 1..(i - 1) : prog[j] = prog[i]}

\* C16: within one output session the first registration of a type name returns
\* a fresh id, counting up from 1, with the high bit set; every later
\* registration of that name returns the same id with the high bit clear; so
\* the name is flagged for transmission at most once
C16_NameFlaggedOnce ==
    /\ \A i \in 1..Len(prog) :
          IF EarlierSame(i) = {}
          THEN stream[i] = Word(TRUE, 1 + Cardinality({prog[j] : j \in 1..(i - 1)}))
          ELSE /\ ~HasMsb(stream[i])
               /\ \A j \in EarlierSame(i) : StripMsb(stream[j]) = stream[i]
    /\ \A n \in TypeNames :
          Cardinality({i \in 1..Len(prog) : prog[i] = n /\ HasMsb(stream[i])}) <= 1

\* a second name is registered between two registrations of a first one
C16_Witness ==
    /\ Len(prog) >= 4
    /\ prog[1] # prog[2] /\ prog[3] = prog[1] /\ prog[4] = prog[2]
    /\ stream[3] = Word(FALSE, 1) /\ stream[4] = Word(FALSE, 2)

\* the last save is of a non-null pointer whose runtime type differs from the
\* declared type and has no output binding
UnboundSave(pg) ==
    /\ pg # <<>>
    /\ Last(pg).ptr # Null
    /\ TypeOf(Last(pg).ptr) # Last(pg).declared
    /\ TypeOf(Last(pg).ptr) \notin bindingMapOutput

\* C17: saving a non-null polymorphic pointer whose runtime type differs from
\* its declared type and has no binding in the output binding map raises the
\* unregistered-polymorphic-type error (and writes nothing)
C17_UnboundSaveRaises ==
    [][(prog' # prog /\ UnboundSave(prog'))
          => (poly_err' = "unregistered polymorphic type" /\ stream' = stream)]_vars

\* an unbound type was saved through a pointer to a concrete base after a bound
\* one went through
C17_Witness ==
    /\ Len(prog) >= 2
    /\ UnboundSave(prog)
    /\ ~is_abstract(Last(prog).declared)
    /\ poly_err = "unregistered polymorphic type"
    /\ \E i \in 1..Len(stream) : stream[i].kind = "polymorphic_name"

\* the id the load of this step read, and the name that follows it
StepId == stream'[in_pos + 1].v
StepName == stream'[in_pos + 2].v

\* C18: on polymorphic input the name of a non-zero, non-sentinel id is read
\* from the stream and recorded under the id when the name flag is set, and is
\* otherwise the name recorded earlier under the id; an error is raised if the
\* name has no input binding or no name was recorded for the id
C18_NameResolved ==
    [][(prog' # prog /\ StepId # Zero /\ ~HasMsb2(StepId)) =>
          IF HasMsb(StepId)
          THEN /\ poly_name' = StepName
               /\ StripMsb(StepId) \in DOMAIN in_itsPolymorphicTypeMap'
               /\ in_itsPolymorphicTypeMap'[StripMsb(StepId)] = StepName
               /\ (in_err' # "none") = (StepName \notin bindingMapInput)
          ELSE IF StepId \in DOMAIN in_itsPolymorphicTypeMap
          THEN /\ poly_name' = in_itsPolymorphicTypeMap[StepId]
               /\ (in_err' # "none") = (poly_name' \notin bindingMapInput)
          ELSE in_err' # "none"]_vars

\* the sequence this step loads declares more bytes than the stream holds
\* after its size tag
Oversized(op) ==
    /\ sq_remaining >= SizeTypeBytes
    /\ op.count * op.size > sq_remaining - SizeTypeBytes

\* C19: loading a sequence whose declared count times the element size exceeds
\* the bytes remaining in the stream raises an error before any allocation or
\* read of that size is attempted: only the size tag is read
C19_OversizedRejectedFirst ==
    [][(prog' # prog /\ Oversized(Last(prog'))) =>
          /\ in_err' # "none"
          /\ sq_events' = Append(sq_events, SeqEvent("read", SizeTypeBytes))]_vars

\* the endianness the consumer loads into: the one requested, the reading
\* machine's own when none was requested
TargetIsLittle == IF pb_inOptions = "default" THEN pb_inLocal ELSE pb_inOptions = "little"

\* the input archive has read the leading byte
InputConstructed == phase = "in" /\ in_err = "none" /\ in_pos >= 1

C21_OppositeEndianRoundTrip ==
    (/\ pb_outOpen /\ InputConstructed
     /\ pb_inOptions # "default"
     /\ stream[1] # (IF TargetIsLittle THEN 1 ELSE 0))
        => \A i \in 1..Len(pb_loaded) : pb_loaded[i] = pb_saved[i]

\* C22: a binary write or read in which the stream transfers fewer bytes than
\* requested raises an error; an operation that returns normally has
\* transferred every byte it asked for
C22_ShortTransferRaises ==
    [][prog' # prog =>
          LET size == Last(prog').size IN
          /\ size > sq_remaining => in_err' # "none"
          /\ in_err' = "none" => sq_remaining' = sq_remaining - size]_vars

\* a write and a read that came up short after one that went through
C22_Witness ==
    /\ Len(prog) = 2
    /\ in_err \in {"short_write", "short_read"}
    /\ sq_remaining = 0
    /\ prog[1].size < prog[2].size


IsArrayNode(t) == t \in {"StartArray", "InArray"}

Closers(s) == Cardinality({i \in DOMAIN s : s[i].kind \in {"EndObject", "EndArray"}})

NamedStep == 
    /\ Len(prog') = Len(prog) + 1
    /\ Last(prog').op \in {"value", "startNode"}
    /\ ~IsArrayNode(Last(js_nodeStack))

\* what a step appended to the writer's calls
Appended(before, after) == SubSeq(after, Len(before) + 1, Len(after))

Names(s) == SelectSeq(s, LAMBDA w : w.kind = "String")

\* C24: a value written in an object is preceded by exactly one name: the
\* name of the name-value pair around it, cleared afterwards, or else
\* "value" + k with k the node's own counter, which is then incremented.
C24_OneNamePerValue ==
    [][NamedStep =>
         LET given == Last(prog').name
             k == Last(js_nameCounter)
             node == Len(js_nodeStack)
         IN /\ Names(Appended(stream, stream')) =
                  <<Writer("String", IF given # NoName THEN given ELSE GeneratedName(k))>>
            /\ js_nextName' = NoName
            /\ js_nameCounter'[node] = IF given # NoName THEN k ELSE k + 1]_vars


\* C25: a value or node written while the node on top is an array, or is
\* pending as an array, puts no name on the writer.
C25_NoNameInArray ==
    [][(/\ Len(prog') = Len(prog) + 1
        /\ Last(prog').op \in {"value", "startNode"}
        /\ IsArrayNode(Last(js_nodeStack)))
       => Names(Appended(stream, stream')) = <<>>]_vars

\* a value given a name by a name-value pair has been written into an array
C25_Witness ==
    /\ prog # <<>> /\ Last(prog).op = "value" /\ Last(prog).name # NoName
    /\ Last(js_nodeStack) = "InArray"
    /\ Last(stream) = Writer("Int", IntValue)


\* C26: a size tag processed while the node on top is pending turns the node
\* into a pending array and writes nothing; the call that then opens the node
\* opens it with StartArray.
C26_SizeTagMakesArray ==
    [][/\ (/\ Len(prog') = Len(prog) + 1
           /\ Last(prog').op = "sizeTag"
           /\ Last(js_nodeStack) \in {"StartObject", "StartArray"})
          => /\ js_nodeStack' = SetTop(js_nodeStack, "StartArray")
             /\ stream' = stream
       /\ (/\ Len(prog') = Len(prog) + 1
           /\ Last(prog').op \in {"value", "startNode", "finishNode"}
           /\ Last(js_nodeStack) = "StartArray")
          => /\ Appended(stream, stream') # <<>>
             /\ Appended(stream, stream')[1] = Writer("StartArray", NoName)]_vars

\* a node started as an object got a size tag and then a value
C26_Witness ==
    /\ Len(prog) = 3
    /\ prog[1].op = "startNode" /\ prog[2].op = "sizeTag" /\ prog[3].op = "value"
    /\ js_nodeStack = <<"InObject", "InArray">>
    /\ stream[Len(stream) - 1] = Writer("StartArray", NoName)


\* the step is a load or a node start under an expected name that is not the
\* name at the cursor
SearchingStep ==
    /\ Len(prog') = Len(prog) + 1
    /\ Last(prog').op \in {"value", "startNode"}
    /\ Last(prog').name # NoName
    /\ IteratorName(Last(ji_stack)) # Last(prog').name

\* C27: a load whose expected name differs from the name at the cursor is
\* served by a sibling of the current level carrying that name, on which the
\* cursor is repositioned; with no such sibling the load raises an error and
\* the cursor stays; the cursors of the enclosing levels are untouched.
C27_SearchRepositions ==
    [][SearchingStep =>
         LET lvl == Len(ji_stack)
             ms == ji_stack[lvl].members
             n == Last(prog').name
             hits == {i \in 1..Len(ms) : ms[i].name = n}
             at == IF in_err' = "none" /\ Last(prog').op = "value"
                   THEN ji_stack'[lvl].index
                   ELSE ji_stack'[lvl].index + 1
         IN IF hits = {}
            THEN in_err' = "not_found" /\ phase' = "failed" /\ ji_stack' = ji_stack
            ELSE /\ in_err' # "not_found"
                 /\ at \in hits
                 /\ SubSeq(ji_stack', 1, lvl - 1) = SubSeq(ji_stack, 1, lvl - 1)
                 /\ (in_err' = "none" /\ Last(prog').op = "value")
                    => Last(ji_loaded') = ms[at].value.int]_vars

\* a named load found its member behind the cursor
C27_Witness ==
    /\ Len(ji_stack) = 1
    /\ Len(prog) = 2 /\ Last(prog).name # NoName
    /\ ji_loaded = <<2, 1>>


\* the value of the only top-level member called n, 0 when there is not
\* exactly one or it is no number
FieldValue(n) ==
    LET hits == {i \in DOMAIN ji_document : ji_document[i].name = n}
    IN IF Cardinality(hits) = 1
       THEN LET i == CHOOSE i \in hits : TRUE IN
            IF ji_document[i].value.kind = "int" THEN ji_document[i].value.int ELSE 0
       ELSE 0

\* the loads made so far are all loads of numbers by name at the top level
NamedLoadsOnly == \A i \in DOMAIN prog : prog[i].op = "value" /\ prog[i].name # NoName

\* C28: in an object whose fields carry distinct names, loads by name of
\* fields that hold numbers all succeed and return the value of the field
\* named, whatever the order of the loads: c, a, b gives what a, b, c gives.
C28_OrderIndependent ==
    (/\ NamedLoadsOnly
     /\ \A i \in DOMAIN prog : FieldValue(prog[i].name) # 0
     /\ \A i, j \in DOMAIN ji_document :
           ji_document[i].name = ji_document[j].name => i = j)
    => /\ phase = "in"
       /\ Len(ji_loaded) = Len(prog)
       /\ \A i \in DOMAIN prog : ji_loaded[i] = FieldValue(prog[i].name)

\* the fields a, b, c have been loaded in the order c, a, b
C28_Witness ==
    /\ phase = "in"
    /\ Len(ji_document) = 3
    /\ \A i \in 1..3 : ji_document[i].name = <<<<"a">>, <<"b">>, <<"c">>>>[i]
    /\ prog = <<TreeOp("value", <<"c">>), TreeOp("value", <<"a">>), TreeOp("value", <<"b">>)>>
    /\ ji_loaded = <<3, 1, 2>>


\* C29: a load with no expected name returns the value at the cursor and
\* moves the cursor one member on, or raises an error at the end of the level;
\* following a load at the top level, where member i holds the number i, it
\* returns the member after the one that load returned, found by name or not.
C29_UnnamedLoadsInOrder ==
    [][(/\ Len(prog') = Len(prog) + 1
        /\ Last(prog').op = "value"
        /\ Last(prog').name = NoName)
       => LET it == Last(ji_stack)
              ms == it.members
          IN IF it.index >= Len(ms) THEN in_err' = "no_more" /\ ji_loaded' = ji_loaded
             ELSE IF ms[it.index + 1].value.kind # "int"
             THEN in_err' = "type" /\ ji_loaded' = ji_loaded
             ELSE /\ in_err' = "none"
                  /\ ji_loaded' = Append(ji_loaded, ms[it.index + 1].value.int)
                  /\ ji_stack' = SetTop(ji_stack, [it EXCEPT !.index = @ + 1])
                  /\ (Len(ji_stack) = 1 /\ prog # <<>> /\ Last(prog).op = "value")
                     => Last(ji_loaded') = Last(ji_loaded) + 1]_vars

\* a load by name skipped the first member and the load after it, with no
\* name, returned the third
C29_Witness ==
    /\ Len(prog) = 2
    /\ prog[1].op = "value" /\ prog[1].name # NoName
    /\ prog[2] = TreeOp("value", NoName)
    /\ ji_document[1].name # prog[1].name
    /\ ji_loaded = <<2, 3>>


\* C30: the values loaded so far are the values saved, in the order they were
\* saved, whatever strategy each type uses; no load fails, and when every
\* value has been loaded the stream is used up.
C30_StrategyRoundTrip ==
    phase = "in" =>
       /\ in_err = "none"
       /\ Len(s_loaded) = in_op
       /\ \A i \in 1..in_op : s_loaded[i] = prog[i].value
       /\ in_op = Len(prog) => in_pos = Len(stream)

\* a minimal type whose surrogate is a minimal type and a value of a type
\* with a versioned save and load have been saved and loaded
C30_Witness ==
    /\ phase = "in" /\ Len(prog) = 2 /\ in_op = 2
    /\ prog[1].depth = 2
    /\ prog[2].caps = {Versioned("global_save"), Versioned("global_load")}
    /\ s_loaded = <<[x |-> 1, y |-> 0], [x |-> 2, y |-> 12]>>


IsOpenNode(t) == t \in {"InObject", "InArray"}

\* C38: a node whose opener has been written stays open until it is
\* finished: no call takes a node of the stack from InObject or InArray back
\* to StartObject or StartArray.
C38_NodeOpenedOnce ==
    [][\A i \in DOMAIN js_nodeStack :
          (i \in DOMAIN js_nodeStack' /\ IsOpenNode(js_nodeStack[i]))
          => IsOpenNode(js_nodeStack'[i])]_vars

\* C39: once the value wrapped by a name-value pair has been written, in an
\* object or in an array, no name is pending.
C39_NameClearedAfterValue ==
    [][(/\ Len(prog') = Len(prog) + 1
        /\ Last(prog').op \in {"value", "startNode"}
        /\ Last(prog').name # NoName)
       => js_nextName' = NoName]_vars


FlushCalls == Cardinality({k \in DOMAIN prog : prog[k].op = "flush"})

\* C37: when the first serializeDeferments of an output session has returned,
\* every closure of the queue, those enqueued during the flush included, has
\* been called exactly once, and no flush dies of a closure enqueued while
\* it runs.
C37_EnqueuedDuringFlushRunsOnce ==
    /\ ~(phase = "crashed" /\ handles = <<>>)
    /\ (phase = "out" /\ stack = <<>> /\ FlushCalls = 1 /\ Last(prog) = FlushOp)
       => \A i \in DOMAIN out_itsDeferments :
             Cardinality({j \in DOMAIN flushed : flushed[j] = out_itsDeferments[i]}) = 1

\* C35: every address in the output archive's pointer table still holds the
\* object that was registered there, so two distinct objects of one session
\* never carry the same pointer id, also when the caller released the first
\* object before it saved the second
C35_TabledObjectsStayAlive ==
    /\ \A a \in DOMAIN out_itsSharedPointerMap :
          /\ al_heap[a] # 0
          /\ al_heap[a] \in DOMAIN al_ids
          /\ al_ids[al_heap[a]] = out_itsSharedPointerMap[a]
    /\ \A o1, o2 \in DOMAIN al_ids : o1 # o2 => al_ids[o1] # al_ids[o2]

C35_Witness ==
    /\ Cardinality(DOMAIN al_ids) = 2
    /\ \E a \in DOMAIN out_itsSharedPointerMap : a \notin al_held
    /\ \E a \in al_held : al_heap[a] = 2 /\ 2 \in DOMAIN al_ids
    /\ 1 \in DOMAIN al_ids

\* the bytes granted so far, as a number wide enough not to wrap
RECURSIVE GrantedBytes(_)
GrantedBytes(grants) ==
    IF grants = <<>> THEN Digits(0, 6)
    ELSE Plus(GrantedBytes(SubSeq(grants, 1, Len(grants) - 1)),
              Times(ConvertTo(Last(grants).granted, 6), Last(grants).sizeofT))

\* C36: the element bytes granted by safe_to_reserve over an input session
\* never add up to more than the budget the archive started with, and no
\* call grants more elements than were requested
C36_GrantsWithinBudget ==
    /\ Leq(GrantedBytes(bg_grants), ConvertTo(bg_initial, 6))
    /\ \A i \in DOMAIN bg_grants :
          Leq(ConvertTo(bg_grants[i].granted, 6), ConvertTo(bg_grants[i].requested, 6))

\* the same on a build whose std::size_t has 64 bits
C36_GrantsWithinBudget64 == size_t_digits = 4 => C36_GrantsWithinBudget

\* no call grants more elements than were requested (any build)
C36_GrantAtMostRequest ==
    \A i \in DOMAIN bg_grants :
        Leq(ConvertTo(bg_grants[i].granted, 6), ConvertTo(bg_grants[i].requested, 6))

\* C34: right after reset() the archive is in its initial session state: the
\* base class set, the pointer table (with the copies kept alive), the
\* polymorphic name table, the version cache and the deferred queue are
\* empty, and an output archive's next pointer id and next polymorphic type
\* id are 1 again
C34_ResetRestoresInitialState ==
    prog # <<>> =>
       /\ Last(prog).op = "resetOutput" =>
             /\ out_itsBaseClassSet = {}
             /\ out_itsSharedPointerMap = EmptyMap
             /\ out_itsSharedPointerStorage = <<>>
             /\ out_itsPolymorphicTypeMap = EmptyMap
             /\ out_itsVersionedTypes = {}
             /\ out_itsDeferments = <<>>
             /\ out_itsCurrentPointerId = One
             /\ out_itsCurrentPolymorphicTypeId = One
       /\ Last(prog).op = "resetInput" =>
             /\ in_itsBaseClassSet = {}
             /\ in_itsSharedPointerMap = EmptyMap
             /\ in_itsPolymorphicTypeMap = EmptyMap
             /\ in_itsVersionedTypes = EmptyMap
             /\ in_itsDeferments = <<>>

\* an output session that registered a pointer and a type name was reset
C34_Witness ==
    /\ Len(prog) = 3
    /\ prog[1].op = "registerSharedPointer"
    /\ prog[2].op = "registerPolymorphicType"
    /\ prog[3].op = "resetOutput"
    /\ out_itsCurrentPointerId = One

\* an input session that queued a deferred load was reset
C34_WitnessInput ==
    /\ Len(prog) = 2
    /\ prog[1].op = "defer"
    /\ prog[2].op = "resetInput"
    /\ out_itsDeferments = <<>>

SoloVersion(t) ==
    IF MacroDeclared(type_hash[t]) # {} THEN versions_mapping[type_hash[t]]
    ELSE classVersion[t]

\* C33: two archives used at the same time on two threads do not interfere:
\* every class version a session is given is the one it is given when it
\* runs alone, and no session brings the process down
C33_ThreadsIndependent ==
    /\ phase # "crashed"
    /\ \A i \in Threads : \A k \in DOMAIN th_given[i] :
          th_given[i][k][2] = SoloVersion(th_given[i][k][1])

\* C33 (amended): in a build that defines VIDE_THREAD_SAFE as 1, every class
\* version a session is given is the one it is given when it runs alone, and
\* no session brings the process down
C33_ThreadsIndependentWithMutex == th_safe => C33_ThreadsIndependent

\* both threads were between lock() and the end of find at the same time
\* in a build without mutexes
C33_Overlap == ~th_safe /\ \A i \in Threads : th_pc[i] \in {"find", "emplace"}

\* in a build with mutexes thread 1 is inserting the version of a type while
\* thread 2 waits for the mutex to look the same type up
C33_Witness ==
    /\ th_safe
    /\ th_pc[1] = "emplace" /\ th_mutex = 1
    /\ type_hash[th_type[1]] \notin DOMAIN versions_mapping
    /\ th_pc[2] = "lock" /\ th_type[2] = th_type[1]

\* in a build with mutexes both sessions were given the version of the same
\* type, which no VIDE_CLASS_VERSION had registered
C33_WitnessBoth ==
    /\ th_safe
    /\ \A i \in Threads : th_given[i] = <<<<1, 0>>>>
    /\ classVersion[1] = 0

\* C31: what a binary output archive encoded, the binary input archive
\* decodes to the same values in the same order, and when all values are
\* loaded exactly the bytes produced are consumed
C31_BinaryRoundTrip ==
    (phase = "in" /\ bn_injected = 0) =>
        /\ in_err = "none"
        /\ bn_loaded = SubSeq(prog, 1, in_op)
        /\ in_op = Len(prog) => in_pos = Len(stream)

\* true, 1234 and the vector [1, 2, 3] went through the binary archives
C31_Witness ==
    /\ ~bn_portable /\ phase = "in" /\ bn_injected = 0
    /\ prog = <<Item("bool", <<1>>), Item("int", <<1234>>), Item("vector", <<1, 2, 3>>)>>
    /\ bn_loaded = prog
    /\ in_pos = 21

\* the byte overwritten with 2 has been consumed by a load
InvalidBoolLoaded == phase = "in" /\ bn_injected # 0 /\ in_pos >= bn_injected

\* C32: decoding a binary or portable binary stream whose byte at a bool
\* position holds 2 raises the Exception "Invalid bool value '2' at byte N",
\* N the offset of the byte in the stream
C32_InvalidBoolRaises ==
    InvalidBoolLoaded =>
        in_err = "Invalid bool value '2' at byte " \o ToString(bn_injected - 1)

\* the load of an invalid bool raises nothing at all
C32_InvalidBoolLoadsSilently ==
    InvalidBoolLoaded => in_err = "none"

====
